---- MODULE Spec2Model ----
(***************************************************************************)
(* Model of mcp-goose: the in-memory job registry and process supervisor   *)
(* (src/jobs.js), its bounded log buffer, and the argument sanitizer of    *)
(* the server (sanitizeArgs), the live-reload broadcaster of the server,   *)
(* and the preview publisher and git watcher (src/publish.js).             *)
(*                                                                         *)
(* Several specifications share the module:                                *)
(*   Spec          job registry: startJob, stopJob and the child-process   *)
(*                 events (data, exit, error) in any interleaving          *)
(*   SpecRing      one ring buffer: append, and a reader that follows      *)
(*                 nextOffset through read / streamLogs                    *)
(*   SpecSanitize  sanitizeArgs applied to bounded token sequences         *)
(*   SpecSse       SSE connections and broadcastReload                     *)
(*   SpecWatcher   initGitWatcher, its watches, polls and disposer         *)
(*   SpecPubAll    publishAllBranches over the branches of a repository    *)
(*   SpecPublish   publishCurrentBranch on a working tree and a preview    *)
(*                 directory, with checkouts and edits in between          *)
(*   SpecLogs      one job whose two streams receive chunks of any size    *)
(*   SpecApi       the request paths that start a job: POST /mcp (tools    *)
(*                 goose_run, goose_session_start) and POST /api/run       *)
(*   SpecTail      a client polling streamLogs while output is appended    *)
(*   SpecServer    the boot publish, the debounced onGitChange and the     *)
(*                 tools that republish, with time in ticks                *)
(*   SpecJobsFair  Spec with the 'error' events of subprocesses delivered  *)
(*   SpecPubSteps  publishCurrentBranch step by step, with checkouts and   *)
(*                 edits between its steps                                 *)
(*   SpecRun       POST /api/run step by step, several requests at a time, *)
(*                 with promote_branch_to_main and the end of jobs         *)
(***************************************************************************)
EXTENDS Integers, Sequences, FiniteSets, TLC

VARIABLES
    jobs,           \* jobs.js:5   Map jobId -> job record
    runningJobId,   \* jobs.js:6   null or <<jobId>>
    child,          \* the ChildProcess object held by each job (job.child)
    nOut,           \* number of output ('data') events delivered so far
    last,           \* the call or event that produced this state, and its result
    rbMax,          \* makeRingBuffer(maxBytes): the capacity
    buffer,         \* jobs.js:13  the ring buffer's bytes
    stream,         \* every byte ever appended, in append order (history)
    reader,         \* a client that follows nextOffset through streamLogs
    tail,           \* a client that keeps polling while output arrives
    sanIn,          \* inputArgs handed to sanitizeArgs
    sanRes,         \* what sanitizeArgs returned or threw
    sseClients,     \* the Set of open SSE responses, in insertion order
    conn,           \* state of every SSE connection
    sseLast,        \* the last SSE operation and what it wrote
    wPhase,         \* initGitWatcher: not called, watching, or disposed
    watchers,       \* the watchers array of initGitWatcher
    watchOpen,      \* the FSWatchers that exist and are not closed
    refDisc,        \* the asynchronous branch-ref discovery
    pollTimer,      \* whether the polling interval is set
    inflight,       \* pollHead calls waiting for git rev-parse
    lastHeadHash,   \* lastHeadHash of initGitWatcher
    wLast,          \* the last watcher step and whether it called onChange
    headCommit,     \* the commit HEAD resolves to
    headLog,        \* every commit HEAD has resolved to since the start
    pollCount,      \* pollHead calls that resolved a hash, and that fired
    head,           \* HEAD of the working directory: a branch or detached
    envBranch,      \* process.env.BRANCH_NAME
    paPc,           \* position of publishAllBranches
    paBranches,     \* branches of publishAllBranches
    paIdx,          \* index of the branch the loop is at
    paResults,      \* results of publishAllBranches
    paCurrent,      \* currentBranch of publishAllBranches
    paLog,          \* what happened to every branch the loop attempted
    paOrigHead,     \* HEAD when publishAllBranches was called
    paFinal,        \* the final checkout: its argument and whether it worked
    version,        \* the revision of the working tree's files
    readme,         \* whether the working tree has a README.md
    preview,        \* the files below the file system root: <<path, data>>
    pubLast,        \* the last publish step and its outcome
    pubRun,         \* a publishCurrentBranch call that runs step by step
    reqLast,        \* the last HTTP request handled and what its handler did
    runs,           \* the POST /api/run requests being handled, step by step
    srvPc,          \* the app.listen callback: booting, then watching
    clock,          \* the time, in ticks
    timers,         \* the deadlines of the timeouts that are set and pending
    republishTimer, \* republishTimer of the app.listen callback
    sigTimes,       \* the times at which onGitChange was called
    pubCalls,       \* the times at which the debounced callback ran
    pubs,           \* the publish operations in flight: who started, phase
    reloadLast      \* what the last step of the server broadcast, and why

jobVars  == <<jobs, runningJobId, child, nOut, last>>
ringVars == <<rbMax, buffer, stream, reader, tail>>
sanVars  == <<sanIn, sanRes>>
sseVars  == <<sseClients, conn, sseLast>>
watchVars == <<wPhase, watchers, watchOpen, refDisc, pollTimer, inflight,
               lastHeadHash, wLast, headCommit, headLog, pollCount>>
repoVars == <<headCommit, headLog>>

\* The parts of the server other than the job registry, the ring buffer and
\* the sanitizer.
gitVars  == <<head, envBranch>>
pubAllVars == <<paPc, paBranches, paIdx, paResults,
                paCurrent, paLog, paOrigHead, paFinal>>
pubVars  == <<version, readme, preview, pubLast, pubRun>>
reqVars  == <<reqLast, runs>>
srvVars  == <<srvPc, clock, timers, republishTimer, sigTimes, pubCalls, pubs,
              reloadLast>>
extVars  == <<sseVars, watchVars, gitVars, pubAllVars, pubVars, reqVars, srvVars>>

vars == <<jobVars, ringVars, sanVars, extVars>>

----------------------------------------------------------------------------
(* Bounds *)

MaxJobs     == 3    \* job ids that newId() hands out in one run
LogMaxBytes == 2    \* config.logMaxBytes used for the jobs' buffers
MaxOut      == 1    \* output events delivered over all jobs in one run
MaxCap      == 2    \* largest capacity a stand-alone ring buffer is made with
MaxStream   == 3    \* bytes appended to the stand-alone ring buffer in one run
MaxChunk    == 2    \* length of one appended chunk
MaxRead     == 2    \* largest maxBytes a reader passes
MaxPolls    == 3    \* reads of one reader session
MaxConns    == 3    \* SSE connections opened in one run
MaxInflight == 2    \* pollHead calls in flight at the same time
MaxHashes   == 2    \* distinct commit hashes git rev-parse HEAD reports
MaxCount    == 2    \* the poll counters stop counting here
MaxReqs     == 2    \* POST /api/run requests handled step by step
MaxBranches == 3    \* branches of the repository
MaxVersions == 2    \* revisions of the working tree

----------------------------------------------------------------------------
(* Values *)

\* JavaScript null / undefined; a present value v is the one-element <<v>>.
null == <<>>

JobIds == 1..MaxJobs

ReqIds == 1..MaxReqs

Terminal == {"completed", "failed", "canceled"}

\* Exit codes the 'exit' event carries: a number, or null when the
\* subprocess was terminated by a signal.
ExitCodes == {<<0>>, <<1>>, null}

\* Output chunks a subprocess of the job registry writes.
JobChunks == {<<"a">>}

\* A reader that has not called streamLogs yet.
ReaderIdle == [state |-> "idle", offset |-> 0, max |-> 0, from |-> 0,
               data |-> <<>>, isEnd |-> FALSE, clean |-> TRUE, polls |-> 0]

\* The polling client before its first call: offset 0, nothing received.
TailIdle == [offset |-> 0, got |-> {}, twice |-> FALSE, isEnd |-> FALSE,
             polls |-> 0]

ConnIds == 1..MaxConns

SseOp(op, attempted, delivered) ==
    [op |-> op, attempted |-> attempted, delivered |-> delivered]

Hashes == 1..MaxHashes

WOp(op, fired) == [op |-> op, fired |-> fired]

\* Names are tuples of one-character strings.
MAIN_BRANCH == <<"m", "a", "i", "n">>

\* The i-th branch of the repository; the first is main.
BranchName(i) == IF i = 1 THEN MAIN_BRANCH ELSE [k \in 1..i |-> "b"]

\* States of HEAD: on a branch, or detached at a commit.
Branch(name) == [kind |-> "branch", name |-> name]
Detached == [kind |-> "detached", name |-> <<>>]

\* What a request handler did: whether the request carried the configured
\* token, what sanitizeArgs said, the subprocesses spawned before sanitizeArgs
\* returned, the Job registered and the response.
ReqOp(path, authed, sanitizer, before, job, resp) ==
    [path |-> path, authed |-> authed, sanitizer |-> sanitizer,
     before |-> before, job |-> job, resp |-> resp]

\* again: the step before was a successful publish of the same branch.
PubOp(op, branch, targetDir, result, again) ==
    [op |-> op, branch |-> branch, targetDir |-> targetDir, result |-> result,
     again |-> again]

Min(a, b) == IF a < b THEN a ELSE b
Max(a, b) == IF a > b THEN a ELSE b

----------------------------------------------------------------------------
(* makeRingBuffer (jobs.js:12-31) *)

\* Buffer.slice / Buffer.subarray(start, end): negative indices count from
\* the end, both are clamped to the buffer, an empty range is empty.
RelIndex(i, len) == IF i < 0 THEN Max(len + i, 0) ELSE Min(i, len)

subarray(buf, start, end) ==
    LET s == RelIndex(start, Len(buf))
        e == RelIndex(end, Len(buf))
    IN  IF s < e THEN SubSeq(buf, s + 1, e) ELSE <<>>

append_keepOldest(buf, chunk, maxBytes) ==
    IF Len(chunk) = 0 THEN buf
    ELSE LET cat == buf \o chunk
         IN  IF Len(cat) > maxBytes THEN subarray(cat, 0, maxBytes) ELSE cat

append(buf, chunk, maxBytes) ==
    IF Len(chunk) = 0 THEN buf
    ELSE LET cat == buf \o chunk
         IN  IF Len(cat) > maxBytes
             THEN subarray(cat, Len(cat) - maxBytes, Len(cat))
             ELSE cat

\* Bytes of the output: an ASCII letter, and the two bytes of a two-byte
\* UTF-8 character (lead byte C3, continuation byte A9).
Bytes == {"a", "C3", "A9"}

\* Buffer.toString('utf8'): a single-byte (ASCII) character decodes to
\* itself, the two-byte sequence to its character, and every byte that is not
\* part of a well-formed sequence to U+FFFD.
RECURSIVE toStringUtf8(_)
toStringUtf8(b) ==
    IF Len(b) = 0 THEN <<>>
    ELSE IF b[1] \notin {"C3", "A9"} THEN <<b[1]>> \o toStringUtf8(Tail(b))
    ELSE IF b[1] = "C3" /\ Len(b) >= 2 /\ b[2] = "A9"
         THEN <<"e-acute">> \o toStringUtf8(Tail(Tail(b)))
    ELSE <<"U+FFFD">> \o toStringUtf8(Tail(b))

read(buf, offset, max) ==
    LET start == Min(offset, Len(buf))
        end   == Min(start + max, Len(buf))
    IN  [data       |-> toStringUtf8(subarray(buf, start, end)),
         nextOffset |-> end,
         isEnd      |-> end >= Len(buf)]

full(buf) == toStringUtf8(buf)

size(buf) == Len(buf)

----------------------------------------------------------------------------
(* Job registry (jobs.js:51-116) *)

Ret(op, id, result) == [op |-> op, jobId |-> id, result |-> result]

newId == Cardinality(DOMAIN jobs) + 1

\* new Date().toISOString(): the time stamp a handler writes into finishedAt.
\* Only its presence is kept, not the time.
now == <<"t">>

\* startJob: BUSY while the running slot is taken; otherwise spawn, register
\* the job as running and take the slot.  spawnOk = FALSE is a spawn that
\* fails asynchronously (ENOENT, EACCES): the child has no pid and will emit
\* 'error' instead of 'exit'.
startJobCall(spawnOk) ==
    /\ UNCHANGED nOut
    /\ IF runningJobId # null
       THEN /\ last' = Ret("startJob", null, "BUSY")
            /\ UNCHANGED <<jobs, runningJobId, child>>
       ELSE /\ newId \in JobIds
            /\ LET id == newId
                   job == [status     |-> "running",
                           pid        |-> IF spawnOk THEN <<id>> ELSE null,
                           finishedAt |-> null,
                           exitCode   |-> null,
                           stdout     |-> <<>>,
                           stderr     |-> <<>>]
               IN  /\ jobs' = [j \in DOMAIN jobs \cup {id} |->
                                  IF j = id THEN job ELSE jobs[j]]
                   /\ runningJobId' = <<id>>
                   /\ child' = [j \in DOMAIN jobs \cup {id} |->
                                  IF j = id
                                  THEN IF spawnOk THEN "alive" ELSE "spawnfail"
                                  ELSE child[j]]
                   /\ last' = Ret("startJob", <<id>>, "ok")

\* startJob called with nothing else happening in the step.
startJob(spawnOk) ==
    /\ startJobCall(spawnOk)
    /\ UNCHANGED <<ringVars, sanVars, extVars>>

\* child.stdout.on('data') / child.stderr.on('data'): the handlers.
stdoutData(j, d) ==
    /\ j \in DOMAIN jobs
    /\ child[j] \in {"alive", "exited"}
    /\ jobs' = [jobs EXCEPT ![j].stdout = append(@, d, LogMaxBytes)]
    /\ last' = Ret("stdout", <<j>>, "-")
    /\ UNCHANGED <<runningJobId, child, ringVars, sanVars, extVars>>

stderrData(j, d) ==
    /\ j \in DOMAIN jobs
    /\ child[j] \in {"alive", "exited"}
    /\ jobs' = [jobs EXCEPT ![j].stderr = append(@, d, LogMaxBytes)]
    /\ last' = Ret("stderr", <<j>>, "-")
    /\ UNCHANGED <<runningJobId, child, ringVars, sanVars, extVars>>

\* The handlers with the output events of a run counted and capped.
onStdoutData(j, d) ==
    /\ nOut < MaxOut
    /\ nOut' = nOut + 1
    /\ stdoutData(j, d)

onStderrData(j, d) ==
    /\ nOut < MaxOut
    /\ nOut' = nOut + 1
    /\ stderrData(j, d)

\* The status the 'exit' handler derives from the exit code.
exitStatus_truthy(code) ==
    IF code # null /\ code # <<0>> THEN "failed" ELSE "completed"

exitStatus(code) == IF code = <<0>> THEN "completed" ELSE "failed"

\* child.on('exit'): emitted once, when the subprocess has ended.
onExit(j, code) ==
    /\ j \in DOMAIN jobs
    /\ child[j] = "alive"
    /\ child' = [child EXCEPT ![j] = "exited"]
    /\ jobs' = [jobs EXCEPT ![j].exitCode = code,
                            ![j].status = exitStatus(code),
                            ![j].finishedAt = now]
    /\ runningJobId' = null
    /\ last' = Ret("exit", <<j>>, "-")
    /\ UNCHANGED <<nOut, ringVars, sanVars, extVars>>

\* The line the 'error' handler appends: "\n[spawn error] <message>\n".
SpawnErrorLine == <<"E">>

onError_toStdout(j) ==
    /\ j \in DOMAIN jobs
    /\ child[j] = "spawnfail"
    /\ child' = [child EXCEPT ![j] = "errored"]
    /\ jobs' = [jobs EXCEPT ![j].stdout = append(@, SpawnErrorLine, LogMaxBytes)]
    /\ last' = Ret("error", <<j>>, "-")
    /\ UNCHANGED <<runningJobId, nOut, ringVars, sanVars, extVars>>

\* child.on('error'): emitted instead of 'exit' when the spawn failed.
onError(j) ==
    /\ j \in DOMAIN jobs
    /\ child[j] = "spawnfail"
    /\ child' = [child EXCEPT ![j] = "errored"]
    /\ jobs' = [jobs EXCEPT ![j].stderr = append(@, SpawnErrorLine, LogMaxBytes)]
    /\ last' = Ret("error", <<j>>, "-")
    /\ UNCHANGED <<runningJobId, nOut, ringVars, sanVars, extVars>>

\* process.kill(pid, signal) throws for an undefined pid (the spawn failed).
killThrows(j) == jobs[j].pid = null

stopJob_keepSlot(jobId) ==
    /\ UNCHANGED <<child, nOut, ringVars, sanVars, extVars>>
    /\ IF jobId \notin DOMAIN jobs
       THEN /\ last' = Ret("stopJob", <<jobId>>, "not_found")
            /\ UNCHANGED <<jobs, runningJobId>>
       ELSE IF jobs[jobId].status # "running"
       THEN /\ last' = Ret("stopJob", <<jobId>>, "not_running")
            /\ UNCHANGED <<jobs, runningJobId>>
       ELSE IF killThrows(jobId)
       THEN /\ last' = Ret("stopJob", <<jobId>>, "kill_failed")
            /\ UNCHANGED <<jobs, runningJobId>>
       ELSE /\ jobs' = [jobs EXCEPT ![jobId].status = "canceled",
                                    ![jobId].finishedAt = now]
            /\ UNCHANGED runningJobId
            /\ last' = Ret("stopJob", <<jobId>>, "ok")

stopJob_noStatusTest(jobId) ==
    /\ UNCHANGED <<child, nOut, ringVars, sanVars, extVars>>
    /\ IF jobId \notin DOMAIN jobs
       THEN /\ last' = Ret("stopJob", <<jobId>>, "not_found")
            /\ UNCHANGED <<jobs, runningJobId>>
       ELSE IF killThrows(jobId)
       THEN /\ last' = Ret("stopJob", <<jobId>>, "kill_failed")
            /\ UNCHANGED <<jobs, runningJobId>>
       ELSE /\ jobs' = [jobs EXCEPT ![jobId].status = "canceled",
                                    ![jobId].finishedAt = now]
            /\ runningJobId' = null
            /\ last' = Ret("stopJob", <<jobId>>, "ok")

stopJob(jobId) ==
    /\ UNCHANGED <<child, nOut, ringVars, sanVars, extVars>>
    /\ IF jobId \notin DOMAIN jobs
       THEN /\ last' = Ret("stopJob", <<jobId>>, "not_found")
            /\ UNCHANGED <<jobs, runningJobId>>
       ELSE IF jobs[jobId].status # "running"
       THEN /\ last' = Ret("stopJob", <<jobId>>, "not_running")
            /\ UNCHANGED <<jobs, runningJobId>>
       ELSE IF killThrows(jobId)
       THEN /\ last' = Ret("stopJob", <<jobId>>, "kill_failed")
            /\ UNCHANGED <<jobs, runningJobId>>
       ELSE /\ jobs' = [jobs EXCEPT ![jobId].status = "canceled",
                                    ![jobId].finishedAt = now]
            /\ runningJobId' = null
            /\ last' = Ret("stopJob", <<jobId>>, "ok")

getRunningJobId == runningJobId

\* streamLogs(jobId, which, offset, max); null for an unknown job.
streamLogs(jobId, which, offset, max) ==
    IF jobId \notin DOMAIN jobs THEN null
    ELSE <<read(IF which = "stderr" THEN jobs[jobId].stderr
                                   ELSE jobs[jobId].stdout, offset, max)>>

\* getOutput(jobId); null for an unknown job.
getOutput(jobId) ==
    IF jobId \notin DOMAIN jobs THEN null
    ELSE <<[stdout   |-> full(jobs[jobId].stdout),
            stderr   |-> full(jobs[jobId].stderr),
            exitCode |-> jobs[jobId].exitCode]>>

----------------------------------------------------------------------------
(* Specification of the job registry *)

RingIdle == /\ rbMax = 0
            /\ buffer = <<>>
            /\ stream = <<>>
            /\ reader = ReaderIdle
            /\ tail = TailIdle

SanIdle == /\ sanIn = <<>>
           /\ sanRes = [state |-> "none", out |-> <<>>, error |-> "", token |-> <<>>]

JobsIdle == /\ jobs = <<>>
            /\ runningJobId = null
            /\ child = <<>>
            /\ nOut = 0
            /\ last = Ret("init", null, "-")

SseIdle == /\ sseClients = <<>>
           /\ conn = [c \in ConnIds |-> "new"]
           /\ sseLast = SseOp("init", <<>>, {})

WatchIdle == /\ wPhase = "off"
             /\ watchers = <<>>
             /\ watchOpen = {}
             /\ refDisc = "none"
             /\ pollTimer = FALSE
             /\ inflight = 0
             /\ lastHeadHash = null
             /\ wLast = WOp("none", FALSE)
             /\ headCommit = 1
             /\ headLog = {1}
             /\ pollCount = [resolved |-> 0, fired |-> 0]

GitIdle == /\ head = Branch(MAIN_BRANCH)
           /\ envBranch = null

\* No publishCurrentBranch call is suspended.
PubRunIdle == [pc |-> "idle", branch |-> <<>>, targetDir |-> <<>>,
               fromGit |-> FALSE]

PubIdle == /\ version = 1
           /\ readme = FALSE
           /\ preview = {}
           /\ pubLast = PubOp("init", <<>>, <<>>, "-", FALSE)
           /\ pubRun = PubRunIdle

PubAllIdle == /\ paPc = "idle"
              /\ paBranches = <<>>
              /\ paIdx = 0
              /\ paResults = <<>>
              /\ paCurrent = <<>>
              /\ paLog = <<>>
              /\ paOrigHead = Branch(MAIN_BRANCH)
              /\ paFinal = null

\* A POST /api/run request that has not arrived.
RunIdle == [pc |-> "none", branch |-> <<>>, checkedOut |-> FALSE,
            overlapped |-> FALSE, job |-> null, spawnHead |-> null]

ReqIdle == /\ reqLast = ReqOp("none", FALSE, "none", {}, null, "-")
           /\ runs = [r \in ReqIds |-> RunIdle]

\* What a step of the server broadcast to the SSE clients: ev is null or
\* the branch of the reload event; by, result and branch tell the publish
\* that ended in the step.
Reload(ev, by, result, branch) ==
    [ev |-> ev, by |-> by, result |-> result, branch |-> branch]

NoReload == Reload(null, "-", "-", null)

\* The server has booted, no timeout is set and no publish is in flight.
SrvIdle == /\ srvPc = "watching"
           /\ clock = 0
           /\ timers = {}
           /\ republishTimer = null
           /\ sigTimes = {}
           /\ pubCalls = <<>>
           /\ pubs = <<>>
           /\ reloadLast = NoReload

ExtIdle == /\ SseIdle /\ WatchIdle /\ GitIdle /\ PubAllIdle /\ PubIdle /\ ReqIdle
           /\ SrvIdle

Init == JobsIdle /\ RingIdle /\ SanIdle /\ ExtIdle

Next ==
    \/ \E spawnOk \in BOOLEAN : startJob(spawnOk)
    \/ \E j \in JobIds : stopJob(j)
    \/ \E j \in JobIds, code \in ExitCodes : onExit(j, code)
    \/ \E j \in JobIds : onError(j)
    \/ \E j \in JobIds, d \in JobChunks : onStdoutData(j, d)
    \/ \E j \in JobIds, d \in JobChunks : onStderrData(j, d)

Spec == Init /\ [][Next]_vars

----------------------------------------------------------------------------
(* Claims about the job registry, checked under Spec *)

Running == {j \in DOMAIN jobs : jobs[j].status = "running"}

\* C1: in every reachable state at most one Job in the registry has status
\* 'running'.
C1_AtMostOneRunning == Cardinality(Running) <= 1

\* C2: a Job's status is monotonic: once it is 'completed', 'failed' or
\* 'canceled', no later event changes it again.
C2_StatusMonotonic ==
    [][\A j \in DOMAIN jobs :
          jobs[j].status \in Terminal => jobs'[j].status = jobs[j].status]_vars

\* C3: whenever some Job has status 'running', a startJob call fails with
\* BUSY, registers no Job, spawns no subprocess and leaves the running Job's
\* status unchanged.
C3_BusyWhileRunning ==
    [][(Running # {} /\ last'.op = "startJob")
          => /\ last'.result = "BUSY"
             /\ jobs' = jobs
             /\ child' = child]_vars

\* C4: a stopJob that succeeds on a running Job sets it to 'canceled' and
\* clears the running slot in the same step, and the startJob issued right
\* after it succeeds, although the stopped subprocess has not exited yet.
C4_StopFreesSlot ==
    /\ [][(last'.op = "stopJob" /\ last'.result = "ok")
             => /\ jobs[last'.jobId[1]].status = "running"
                /\ jobs'[last'.jobId[1]].status = "canceled"
                /\ child'[last'.jobId[1]] = "alive"
                /\ runningJobId' = null]_vars
    /\ [][(last.op = "stopJob" /\ last.result = "ok" /\ last'.op = "startJob")
             => /\ last'.result = "ok"
                /\ jobs'[last'.jobId[1]].status = "running"
                /\ runningJobId' = last'.jobId]_vars

\* A job was started right after a stop, before the stopped subprocess's
\* exit event was delivered.
C4_Witness ==
    /\ last.op = "startJob"
    /\ last.result = "ok"
    /\ \E j \in DOMAIN jobs :
          /\ <<j>> # last.jobId
          /\ jobs[j].status = "canceled"
          /\ child[j] = "alive"

\* A step that turns a Job 'canceled' is a stopJob call on that Job that
\* returned ok.
CanceledOnlyByStop ==
    [][\A j \in DOMAIN jobs' :
          (/\ jobs'[j].status = "canceled"
           /\ (j \notin DOMAIN jobs \/ jobs[j].status # "canceled"))
          => last' = Ret("stopJob", <<j>>, "ok")]_vars

\* C5 as claimed: 'completed' has exit code 0, 'failed' has a non-zero exit
\* code, 'canceled' results only from a successful stopJob.
C5_Original ==
    /\ [](\A j \in DOMAIN jobs :
            /\ jobs[j].status = "completed" => jobs[j].exitCode = <<0>>
            /\ jobs[j].status = "failed" =>
                  (jobs[j].exitCode # null /\ jobs[j].exitCode # <<0>>))
    /\ CanceledOnlyByStop

\* C5 (amended): 'completed' has exit code 0; 'failed' has an exit code other
\* than 0, which is a non-zero number or null (the subprocess was terminated
\* by a signal); 'canceled' results only from a successful stopJob.
C5_ExitCodeDecidesStatus ==
    /\ [](\A j \in DOMAIN jobs :
            /\ jobs[j].status = "completed" => jobs[j].exitCode = <<0>>
            /\ jobs[j].status = "failed" => jobs[j].exitCode \in {<<1>>, null})
    /\ CanceledOnlyByStop

\* All three terminal statuses are present, 'failed' once with a number and
\* once without.
C5_Witness ==
    /\ \E j \in DOMAIN jobs : jobs[j].status = "completed"
    /\ \E j \in DOMAIN jobs : jobs[j].status = "canceled"
    /\ \E j \in DOMAIN jobs :
          jobs[j].status = "failed" /\ jobs[j].exitCode \in {<<1>>, null}

----------------------------------------------------------------------------
(* Specification of one ring buffer and a reader that tails it *)

RECURSIVE SeqsUpTo(_, _)
SeqsUpTo(S, n) ==
    IF n = 0 THEN {<<>>}
    ELSE LET shorter == SeqsUpTo(S, n - 1)
         IN  shorter \cup {Append(q, x) : q \in {r \in shorter : Len(r) = n - 1},
                                          x \in S}

Chunks == SeqsUpTo(Bytes, MaxChunk)

\* maxBytes is any number the caller sends (z.number().optional()).
MaxVals == (-1)..MaxRead

\* stdoutBuf.append(d): an output chunk arrives.
ringAppend(chunk) ==
    /\ Len(stream) + Len(chunk) <= MaxStream
    /\ buffer' = append(buffer, chunk, rbMax)
    /\ stream' = stream \o chunk
    /\ reader' = IF buffer' = buffer THEN reader
                 ELSE [reader EXCEPT !.clean = FALSE]
    /\ UNCHANGED <<rbMax, tail, jobVars, sanVars, extVars>>

\* The reader's first call: offset 0.
pollFirst(max) ==
    /\ LET r == read(buffer, 0, max)
       IN  reader' = [state |-> "polled", offset |-> r.nextOffset, max |-> max,
                      from |-> 0, data |-> r.data, isEnd |-> r.isEnd,
                      clean |-> TRUE, polls |-> 1]
    /\ UNCHANGED <<rbMax, buffer, stream, tail, jobVars, sanVars, extVars>>

\* A further call, with the nextOffset the previous call returned.
pollNext(max) ==
    /\ reader.state = "polled"
    /\ ~reader.isEnd
    /\ reader.polls < MaxPolls
    /\ LET r == read(buffer, reader.offset, max)
       IN  reader' = [reader EXCEPT !.offset = r.nextOffset,
                                    !.max = max,
                                    !.from = reader.offset,
                                    !.data = @ \o r.data,
                                    !.isEnd = r.isEnd,
                                    !.polls = @ + 1]
    /\ UNCHANGED <<rbMax, buffer, stream, tail, jobVars, sanVars, extVars>>

InitRing ==
    /\ rbMax \in 1..MaxCap
    /\ buffer = <<>>
    /\ stream = <<>>
    /\ reader = ReaderIdle
    /\ tail = TailIdle
    /\ JobsIdle
    /\ SanIdle
    /\ ExtIdle

NextRing ==
    \/ \E chunk \in Chunks : ringAppend(chunk)
    \/ \E max \in MaxVals : pollFirst(max)
    \/ \E max \in MaxVals : pollNext(max)

SpecRing == InitRing /\ [][NextRing]_vars

----------------------------------------------------------------------------
(* Claims about the ring buffer, checked under SpecRing *)

\* The last n elements of s.
Suffix(s, n) == SubSeq(s, Len(s) - n + 1, Len(s))

\* C6: after any sequence of appends the buffer is no longer than its
\* capacity and holds the last min(total appended length, capacity) bytes of
\* the concatenation of all appended chunks.
C6_BufferIsSuffix ==
    /\ Len(buffer) <= rbMax
    /\ buffer = Suffix(stream, Min(Len(stream), rbMax))

\* More was appended than the buffer holds: the oldest bytes were dropped.
C6_Witness ==
    /\ Len(stream) > rbMax
    /\ Len(buffer) = rbMax
    /\ buffer # SubSeq(stream, 1, rbMax)

\* C7: with no appends in between, reading from offset 0 and then from each
\* returned nextOffset yields data whose concatenation is the full buffer
\* content, and the calls reach isEnd = true (every call that is not the end
\* moves the offset forward), whatever maxBytes is passed.
C7_ReadsReconstruct ==
    (reader.state = "polled" /\ reader.clean)
        => /\ reader.isEnd => reader.data = full(buffer)
           /\ ~reader.isEnd => reader.offset > reader.from

----------------------------------------------------------------------------
(* Argument sanitizer (server: sanitizeArgs) *)

\* A token is a JavaScript value: a string (its characters in val) or
\* something else.
Str(chars) == [type |-> "string", val |-> chars]

NotAString == [type |-> "number", val |-> <<"7">>]

ALLOWED_FLAGS == {
    <<"-", "-", "r", "e", "c", "i", "p", "e">>,
    <<"-", "-", "i", "n", "s", "t", "r", "u", "c", "t", "i", "o", "n", "s">>,
    <<"-", "i">>,
    <<"-", "-", "t", "e", "x", "t">>,
    <<"-", "t">>,
    <<"-", "-", "n", "o", "-", "s", "e", "s", "s", "i", "o", "n">>,
    <<"-", "-", "n", "a", "m", "e">>,
    <<"-", "n">>,
    <<"-", "-", "r", "e", "s", "u", "m", "e">>,
    <<"-", "r">>,
    <<"-", "-", "p", "a", "t", "h">>,
    <<"-", "p">>,
    <<"-", "-", "m", "a", "x", "-", "t", "u", "r", "n", "s">>,
    <<"-", "-", "e", "x", "p", "l", "a", "i", "n">>,
    <<"-", "-", "d", "e", "b", "u", "g">>,
    <<"-", "-", "p", "r", "o", "v", "i", "d", "e", "r">>,
    <<"-", "-", "m", "o", "d", "e", "l">>,
    <<"-", "-", "p", "a", "r", "a", "m", "s">>,
    <<"-", "-", "s", "u", "b", "-", "r", "e", "c", "i", "p", "e">>,
    <<"-", "-", "w", "i", "t", "h", "-", "b", "u", "i", "l", "t", "i", "n">>,
    <<"-", "-", "v", "e", "r", "b", "o", "s", "e">>,
    <<"-", "v">>,
    <<"-", "-", "f", "o", "r", "m", "a", "t">>,
    <<"-", "f">>,
    <<"-", "-", "a", "s", "c", "e", "n", "d", "i", "n", "g">>,
    <<"-", "-", "i", "d">>,
    <<"-", "-", "o", "u", "t", "p", "u", "t">>,
    <<"-", "o">> }

DISALLOWED_FLAGS == {
    <<"-", "-", "i", "n", "t", "e", "r", "a", "c", "t", "i", "v", "e">>,
    <<"-", "s">> }

\* The characters of the regular expression in sanitizeArgs: backtick (written
\* "backtick" here), | ; & < > $ and backslash.
UnsafeChars_noBackslash == {"backtick", "|", ";", "&", "<", ">", "$"}

UnsafeChars == {"backtick", "|", ";", "&", "<", ">", "$", "\\"}

hasUnsafeChar(chars) == \E i \in 1..Len(chars) : chars[i] \in UnsafeChars

startsWithDash_always(chars) == TRUE

startsWithDash(chars) == Len(chars) >= 1 /\ chars[1] = "-"

Threw(error, a) ==
    [state |-> "threw", out |-> <<>>, error |-> error, token |-> <<a>>]

Returned(out) ==
    [state |-> "returned", out |-> out, error |-> "", token |-> <<>>]

\* The loop of sanitizeArgs from token i on, out holding the tokens pushed so
\* far.
RECURSIVE sanitizeLoop_pushFlagsOnly(_, _, _)
sanitizeLoop_pushFlagsOnly(inputArgs, i, out) ==
    IF i > Len(inputArgs) THEN Returned(out)
    ELSE LET a == inputArgs[i]
         IN  IF a.type # "string"
                 THEN sanitizeLoop_pushFlagsOnly(inputArgs, i + 1, out)
             ELSE IF hasUnsafeChar(a.val)
                 THEN Threw("unsafe token detected", a)
             ELSE IF startsWithDash(a.val) /\ a.val \notin ALLOWED_FLAGS
                 THEN Threw("flag not allowed", a)
             ELSE IF a.val \in DISALLOWED_FLAGS
                 THEN Threw("flag disallowed", a)
             ELSE sanitizeLoop_pushFlagsOnly(inputArgs, i + 1,
                     IF startsWithDash(a.val) THEN Append(out, a) ELSE out)

RECURSIVE sanitizeLoop(_, _, _)
sanitizeLoop(inputArgs, i, out) ==
    IF i > Len(inputArgs) THEN Returned(out)
    ELSE LET a == inputArgs[i]
         IN  IF a.type # "string"
                 THEN sanitizeLoop(inputArgs, i + 1, out)
             ELSE IF hasUnsafeChar(a.val)
                 THEN Threw("unsafe token detected", a)
             ELSE IF startsWithDash(a.val) /\ a.val \notin ALLOWED_FLAGS
                 THEN Threw("flag not allowed", a)
             ELSE IF a.val \in DISALLOWED_FLAGS
                 THEN Threw("flag disallowed", a)
             ELSE sanitizeLoop(inputArgs, i + 1, Append(out, a))

sanitizeArgs(inputArgs) == sanitizeLoop(inputArgs, 1, <<>>)

----------------------------------------------------------------------------
(* Specification of the sanitizer applied to bounded inputs *)

MaxArgs == 2    \* tokens in one input sequence

\* The strings the inputs are built from: allowlisted flags, denylisted
\* flags, unknown flags, plain text, and text with each unsafe character.
InputStrings == {
    <<"-", "-", "t", "e", "x", "t">>,
    <<"-", "t">>,
    <<"-", "-", "r", "e", "c", "i", "p", "e">>,
    <<"-", "i">>,
    <<"-", "-", "i", "n", "t", "e", "r", "a", "c", "t", "i", "v", "e">>,
    <<"-", "s">>,
    <<"-", "-", "f", "o", "o">>,
    <<"-", "x">>,
    <<"-">>,
    <<>>,
    <<"h", "e", "l", "l", "o">>,
    <<"a", "-", "b">>,
    <<"backtick">>,
    <<"a", "|", "b">>,
    <<";">>,
    <<"r", "m", "&">>,
    <<"<">>,
    <<">">>,
    <<"$", "x">>,
    <<"\\">>,
    <<"-", "t", ";">> }

InputTokens == {Str(c) : c \in InputStrings} \cup {NotAString}

\* A request handler calls sanitizeArgs on its argument list.
callSanitize ==
    /\ sanRes.state = "none"
    /\ sanRes' = sanitizeArgs(sanIn)
    /\ UNCHANGED <<sanIn, jobVars, ringVars, extVars>>

InitSanitize ==
    /\ sanIn \in SeqsUpTo(InputTokens, MaxArgs)
    /\ sanRes = [state |-> "none", out |-> <<>>, error |-> "", token |-> <<>>]
    /\ JobsIdle
    /\ RingIdle
    /\ ExtIdle

NextSanitize == callSanitize

SpecSanitize == InitSanitize /\ [][NextSanitize]_vars

----------------------------------------------------------------------------
(* Claims about the sanitizer, checked under SpecSanitize *)

Tokens(args) == {args[i] : i \in 1..Len(args)}

AllStrings(args) == \A a \in Tokens(args) : a.type = "string"

\* A string token that one of the rules rejects.
Rejected(a) ==
    /\ a.type = "string"
    /\ \/ \E i \in 1..Len(a.val) :
             a.val[i] \in {"backtick", "|", ";", "&", "<", ">", "$", "\\"}
       \/ (Len(a.val) >= 1 /\ a.val[1] = "-" /\ a.val \notin ALLOWED_FLAGS)
       \/ a.val \in DISALLOWED_FLAGS

\* C8: applied to a sequence of string tokens, sanitizeArgs either returns a
\* sequence equal to its input or fails with an error that names a token of
\* the input which a rule rejects (the first such token); the call changes
\* neither its input nor any other state.
C8_SameOrFail ==
    /\ [](AllStrings(sanIn) =>
            \/ sanRes.state = "none"
            \/ sanRes.state = "returned" /\ sanRes.out = sanIn
            \/ /\ sanRes.state = "threw"
               /\ \E i \in 1..Len(sanIn) :
                     /\ sanRes.token = <<sanIn[i]>>
                     /\ Rejected(sanIn[i])
                     /\ \A k \in 1..(i - 1) : ~Rejected(sanIn[k]))
    /\ [][sanRes' # sanRes => UNCHANGED <<sanIn, jobVars, ringVars, extVars>>]_vars

\* A sequence of two different string tokens was returned unchanged.
C8_Witness ==
    /\ sanRes.state = "returned"
    /\ Len(sanIn) = 2
    /\ AllStrings(sanIn)
    /\ sanIn[1] # sanIn[2]

\* C9: sanitizeArgs fails for every input that contains a token with one of
\* the characters backtick | ; & < > $ \ and for every input that contains a token
\* beginning with '-' that is not in the flag allowlist.
C9_RejectsUnsafe ==
    (/\ sanRes.state # "none"
     /\ \E a \in Tokens(sanIn) :
           /\ a.type = "string"
           /\ \/ \E i \in 1..Len(a.val) :
                    a.val[i] \in {"backtick", "|", ";", "&", "<", ">", "$", "\\"}
              \/ (Len(a.val) >= 1 /\ a.val[1] = "-"
                    /\ a.val \notin ALLOWED_FLAGS))
        => sanRes.state = "threw"

\* A call failed on an input whose first token is acceptable and whose
\* second token holds a backslash.
C9_Witness ==
    /\ sanRes.state = "threw"
    /\ Len(sanIn) = 2
    /\ ~Rejected(sanIn[1])
    /\ sanIn[2] = Str(<<"\\">>)

\* Non-flag text: a string that does not begin with '-' and holds no unsafe
\* character.
PlainText(a) ==
    /\ a.type = "string"
    /\ ~(Len(a.val) >= 1 /\ a.val[1] = "-")
    /\ \A i \in 1..Len(a.val) :
          a.val[i] \notin {"backtick", "|", ";", "&", "<", ">", "$", "\\"}

\* C10: sanitizeArgs accepts every sequence all of whose tokens are
\* allowlisted flags or non-flag text without unsafe characters; non-flag
\* tokens are not checked against the allowlist.
C10_AcceptsAllowed ==
    (/\ sanRes.state # "none"
     /\ \A a \in Tokens(sanIn) :
           a.type = "string" /\ (a.val \in ALLOWED_FLAGS \/ PlainText(a)))
        => (sanRes.state = "returned" /\ sanRes.out = sanIn)

\* An allowlisted flag followed by free text that is no flag was accepted.
C10_Witness ==
    /\ sanRes.state = "returned"
    /\ Len(sanIn) = 2
    /\ sanIn[1].val \in ALLOWED_FLAGS
    /\ PlainText(sanIn[2])
    /\ sanIn[2].val \notin ALLOWED_FLAGS
    /\ sanIn[2].val # <<>>

\* The first token of the input that a rule rejects, as <<index>>, or null.
FirstRejected(args) ==
    LET bad == {i \in 1..Len(args) : Rejected(args[i])}
    IN  IF bad = {} THEN null
        ELSE <<CHOOSE i \in bad : \A k \in bad : i <= k>>

\* C11: a token that equals a denylisted flag ('--interactive' or '-s') makes
\* sanitizeArgs fail with the 'flag disallowed' error.
C11_DenylistError ==
    (/\ sanRes.state # "none"
     /\ FirstRejected(sanIn) # null
     /\ sanIn[FirstRejected(sanIn)[1]].val \in DISALLOWED_FLAGS)
        => /\ sanRes.state = "threw"
           /\ sanRes.error = "flag disallowed"
           /\ sanRes.token = <<sanIn[FirstRejected(sanIn)[1]]>>

----------------------------------------------------------------------------
(* Further claims about the job registry, checked under Spec *)

\* Whether seq s ends with seq t.
EndsWith(s, t) ==
    Len(s) >= Len(t) /\ SubSeq(s, Len(s) - Len(t) + 1, Len(s)) = t

\* C20: a spawn error that arrives after startJob has returned is not raised
\* to a caller: the 'error' event changes nothing but the Job's stderr
\* buffer, to which it appends the '[spawn error]' line, and streamLogs and
\* getOutput return that line.
C20_SpawnErrorLogged ==
    /\ [](\A j \in DOMAIN jobs :
            child[j] = "errored" =>
               /\ EndsWith(getOutput(j)[1].stderr, toStringUtf8(SpawnErrorLine))
               /\ EndsWith(streamLogs(j, "stderr", 0, LogMaxBytes)[1].data,
                           toStringUtf8(SpawnErrorLine))
               /\ getOutput(j)[1].stdout = <<>>)
    /\ [][last'.op = "error" =>
            /\ DOMAIN jobs' = DOMAIN jobs
            /\ runningJobId' = runningJobId
            /\ \A j \in DOMAIN jobs :
                  /\ jobs'[j].status = jobs[j].status
                  /\ jobs'[j].exitCode = jobs[j].exitCode
                  /\ jobs'[j].finishedAt = jobs[j].finishedAt
                  /\ jobs'[j].stdout = jobs[j].stdout
                  /\ <<j>> # last'.jobId => jobs'[j].stderr = jobs[j].stderr]_vars

\* startJob returned ok for a spawn that then failed, and the 'error' event
\* has been delivered.
C20_Witness ==
    /\ last.op = "error"
    /\ \E j \in DOMAIN jobs :
          /\ last.jobId = <<j>>
          /\ child[j] = "errored"
          /\ jobs[j].status = "running"
          /\ jobs[j].pid = null

----------------------------------------------------------------------------
(* Live-reload broadcaster (server: sseClients, GET /events, broadcastReload) *)

\* The connections of sequence q without c.
Without(q, c) == SelectSeq(q, LAMBDA x : x # c)

\* app.get('/events'): the response is added to the set.
sseConnect(c) ==
    /\ conn[c] = "new"
    /\ conn' = [conn EXCEPT ![c] = "open"]
    /\ sseClients' = Append(sseClients, c)
    /\ sseLast' = SseOp("connect", <<c>>, {})
    /\ UNCHANGED <<jobVars, ringVars, sanVars, watchVars, gitVars, pubAllVars, pubVars, reqVars, srvVars>>

\* The socket of a connection breaks: from now on res.write throws, the
\* 'close' event has not been delivered yet.
sseBreak(c) ==
    /\ conn[c] = "open"
    /\ conn' = [conn EXCEPT ![c] = "failing"]
    /\ sseLast' = SseOp("break", <<c>>, {})
    /\ UNCHANGED <<sseClients, jobVars, ringVars, sanVars, watchVars, gitVars, pubAllVars, pubVars, reqVars, srvVars>>

\* req.on('close'): the connection's own close handler.
sseClose(c) ==
    /\ conn[c] \in {"open", "failing"}
    /\ conn' = [conn EXCEPT ![c] = "closed"]
    /\ sseClients' = Without(sseClients, c)
    /\ sseLast' = SseOp("close", <<c>>, {})
    /\ UNCHANGED <<jobVars, ringVars, sanVars, watchVars, gitVars, pubAllVars, pubVars, reqVars, srvVars>>

\* The loop of broadcastReload from the i-th member of the set on: the
\* connections it called res.write on, and those that took the event.
RECURSIVE broadcastLoop_stopAtFailure(_, _, _, _)
broadcastLoop_stopAtFailure(clients, i, attempted, delivered) ==
    IF i > Len(clients) THEN SseOp("broadcast", attempted, delivered)
    ELSE IF conn[clients[i]] = "open"
         THEN broadcastLoop_stopAtFailure(clients, i + 1,
                  Append(attempted, clients[i]), delivered \cup {clients[i]})
         ELSE SseOp("broadcast", Append(attempted, clients[i]), delivered)

RECURSIVE broadcastLoop(_, _, _, _)
broadcastLoop(clients, i, attempted, delivered) ==
    IF i > Len(clients) THEN SseOp("broadcast", attempted, delivered)
    ELSE IF conn[clients[i]] = "open"
         THEN broadcastLoop(clients, i + 1,
                  Append(attempted, clients[i]), delivered \cup {clients[i]})
         ELSE broadcastLoop(clients, i + 1,
                  Append(attempted, clients[i]), delivered)

broadcastReload ==
    /\ sseLast' = broadcastLoop(sseClients, 1, <<>>, {})
    /\ UNCHANGED <<sseClients, conn, jobVars, ringVars, sanVars, watchVars, gitVars, pubAllVars, pubVars, reqVars, srvVars>>

InitSse == JobsIdle /\ RingIdle /\ SanIdle /\ ExtIdle

NextSse ==
    \/ \E c \in ConnIds : sseConnect(c)
    \/ \E c \in ConnIds : sseBreak(c)
    \/ \E c \in ConnIds : sseClose(c)
    \/ broadcastReload

SpecSse == InitSse /\ [][NextSse]_vars

----------------------------------------------------------------------------
(* Claims about the broadcaster, checked under SpecSse *)

Members(q) == {q[i] : i \in 1..Len(q)}

\* C19: broadcastReload writes to every connection that is in the set at the
\* time of the call; a write failure on one of them neither stops delivery
\* to the others nor removes it from the set; a connection leaves the set
\* only through its own close handler; a closed connection is not written to
\* by a later broadcast.
C19_BroadcastReachesAll ==
    /\ [][sseLast'.op = "broadcast" =>
            /\ Members(sseLast'.attempted) = Members(sseClients)
            /\ sseLast'.delivered = {c \in Members(sseClients) : conn[c] = "open"}
            /\ sseClients' = sseClients
            /\ \A c \in Members(sseLast'.attempted) : conn[c] # "closed"]_vars
    /\ [][\A c \in Members(sseClients) :
            c \notin Members(sseClients') => sseLast' = SseOp("close", <<c>>, {})]_vars
    /\ [](\A c \in ConnIds : conn[c] = "closed" => c \notin Members(sseClients))

\* A broadcast met a failing connection first, delivered to one behind it,
\* and a closed connection existed.
C19_Witness ==
    /\ sseLast.op = "broadcast"
    /\ Len(sseLast.attempted) = 2
    /\ conn[sseLast.attempted[1]] = "failing"
    /\ sseLast.delivered = {sseLast.attempted[2]}
    /\ sseLast.attempted[1] \in Members(sseClients)
    /\ \E c \in ConnIds : conn[c] = "closed"

----------------------------------------------------------------------------
(* Git watcher (publish.js: initGitWatcher)                                 *)

\* The files initGitWatcher watches synchronously, in the order of the code.
SyncWatches == <<"HEAD", "packed-refs", "refs/heads">>

\* The synchronous part of initGitWatcher: the watches of ok are set up (an
\* fs.watch that throws is skipped), the ref discovery is started, the
\* interval is set and the priming pollHead is called.
initGitWatcher(ok) ==
    /\ wPhase = "off"
    /\ wPhase' = "on"
    /\ watchers' = SelectSeq(SyncWatches, LAMBDA f : f \in ok)
    /\ watchOpen' = ok
    /\ refDisc' = "pending"
    /\ pollTimer' = TRUE
    /\ inflight' = 1
    /\ wLast' = WOp("init", FALSE)
    /\ UNCHANGED <<lastHeadHash, repoVars, pollCount,
                   jobVars, ringVars, sanVars, sseVars, gitVars, pubAllVars, pubVars, reqVars, srvVars>>

\* The async block that reads HEAD resumes: when HEAD names a ref and
\* fs.watch succeeds, safeWatch pushes the watch onto the current watchers
\* array.
refDiscovered(watched) ==
    /\ refDisc = "pending"
    /\ refDisc' = "done"
    /\ IF watched
       THEN /\ watchers' = Append(watchers, "ref")
            /\ watchOpen' = watchOpen \cup {"ref"}
       ELSE UNCHANGED <<watchers, watchOpen>>
    /\ wLast' = WOp("refDiscovered", FALSE)
    /\ UNCHANGED <<wPhase, pollTimer, inflight, lastHeadHash,
                   repoVars, pollCount,
                   jobVars, ringVars, sanVars, sseVars, gitVars, pubAllVars, pubVars, reqVars, srvVars>>

\* An open watch reports a change: its listener calls onChange.
fsEvent(f) ==
    /\ f \in watchOpen
    /\ wLast' = WOp("fsEvent", TRUE)
    /\ UNCHANGED <<wPhase, watchers, watchOpen, refDisc, pollTimer, inflight,
                   lastHeadHash, repoVars, pollCount,
                   jobVars, ringVars, sanVars, sseVars, gitVars, pubAllVars, pubVars, reqVars, srvVars>>

\* The interval fires: pollHead starts and waits for git rev-parse HEAD.
timerTick ==
    /\ pollTimer
    /\ inflight < MaxInflight
    /\ inflight' = inflight + 1
    /\ wLast' = WOp("tick", FALSE)
    /\ UNCHANGED <<wPhase, watchers, watchOpen, refDisc, pollTimer,
                   lastHeadHash, repoVars, pollCount,
                   jobVars, ringVars, sanVars, sseVars, gitVars, pubAllVars, pubVars, reqVars, srvVars>>

Count(n) == IF n < MaxCount THEN n + 1 ELSE n

\* pollHead without the comparison with lastHeadHash.
pollHeadDone_noCompare(error, hash) ==
    /\ inflight > 0
    /\ IF hash = null THEN TRUE ELSE hash[1] \in headLog
    /\ inflight' = inflight - 1
    /\ IF ~error /\ hash # null
       THEN /\ lastHeadHash' = hash
            /\ wLast' = WOp("poll", TRUE)
            /\ pollCount' = [resolved |-> Count(pollCount.resolved),
                             fired |-> Count(pollCount.fired)]
       ELSE /\ UNCHANGED lastHeadHash
            /\ wLast' = WOp("poll", FALSE)
            /\ UNCHANGED pollCount
    /\ UNCHANGED <<wPhase, watchers, watchOpen, refDisc, pollTimer, repoVars,
                   jobVars, ringVars, sanVars, sseVars, gitVars, pubAllVars, pubVars, reqVars, srvVars>>

\* git rev-parse HEAD of one pollHead call returns: an error or an empty
\* output (hash = null) is ignored, a hash other than lastHeadHash is stored
\* and reported through onChange.  The hash is a commit HEAD resolved to
\* while the call was in flight.
pollHeadDone(error, hash) ==
    /\ inflight > 0
    /\ IF hash = null THEN TRUE ELSE hash[1] \in headLog
    /\ inflight' = inflight - 1
    /\ IF ~error /\ hash # null /\ hash # lastHeadHash
       THEN /\ lastHeadHash' = hash
            /\ wLast' = WOp("poll", TRUE)
            /\ pollCount' = [resolved |-> Count(pollCount.resolved),
                             fired |-> Count(pollCount.fired)]
       ELSE /\ UNCHANGED lastHeadHash
            /\ wLast' = WOp("poll", FALSE)
            /\ pollCount' = IF ~error /\ hash # null
                            THEN [pollCount EXCEPT !.resolved = Count(@)]
                            ELSE pollCount
    /\ UNCHANGED <<wPhase, watchers, watchOpen, refDisc, pollTimer, repoVars,
                   jobVars, ringVars, sanVars, sseVars, gitVars, pubAllVars, pubVars, reqVars, srvVars>>

\* A commit, checkout or reset in the working directory moves HEAD.
moveHead(h) ==
    /\ wPhase # "off"
    /\ h # headCommit
    /\ headCommit' = h
    /\ headLog' = headLog \cup {h}
    /\ wLast' = WOp("moveHead", FALSE)
    /\ UNCHANGED <<wPhase, watchers, watchOpen, refDisc, pollTimer, inflight,
                   lastHeadHash, pollCount,
                   jobVars, ringVars, sanVars, sseVars, gitVars, pubAllVars, pubVars, reqVars, srvVars>>

\* The disposer returned by initGitWatcher.
dispose ==
    /\ wPhase \in {"on", "disposed"}
    /\ wPhase' = "disposed"
    /\ watchOpen' = watchOpen \ {watchers[i] : i \in 1..Len(watchers)}
    /\ watchers' = <<>>
    /\ pollTimer' = FALSE
    /\ wLast' = WOp("dispose", FALSE)
    /\ UNCHANGED <<refDisc, inflight, lastHeadHash,
                   repoVars, pollCount,
                   jobVars, ringVars, sanVars, sseVars, gitVars, pubAllVars, pubVars, reqVars, srvVars>>

InitWatcher == JobsIdle /\ RingIdle /\ SanIdle /\ ExtIdle

NextWatcher ==
    \/ \E ok \in SUBSET {SyncWatches[i] : i \in 1..Len(SyncWatches)} :
           initGitWatcher(ok)
    \/ \E watched \in BOOLEAN : refDiscovered(watched)
    \/ \E f \in watchOpen : fsEvent(f)
    \/ timerTick
    \/ \E error \in BOOLEAN, hash \in {null} \cup {<<h>> : h \in Hashes} :
           pollHeadDone(error, hash)
    \/ \E h \in Hashes : moveHead(h)
    \/ dispose

SpecWatcher == InitWatcher /\ [][NextWatcher]_vars

----------------------------------------------------------------------------
(* Claims about the watcher, checked under SpecWatcher *)

\* C18: once the disposer of initGitWatcher has been called, every watch it
\* created is closed (the branch-ref watch found asynchronously included),
\* the polling timer is cancelled, and onChange is never invoked again, not
\* by a poll or a ref discovery that was in flight either.
C18_DisposeStopsAll ==
    /\ [](wPhase = "disposed" => watchOpen = {} /\ ~pollTimer)
    /\ [][wPhase = "disposed" => ~wLast'.fired]_vars

----------------------------------------------------------------------------
(* Publishing every branch (publish.js: detectBranch, publishAllBranches)   *)

\* What git rev-parse --abbrev-ref HEAD prints for a state of HEAD.
abbrevRef(h) == IF h.kind = "branch" THEN h.name ELSE <<"H", "E", "A", "D">>

\* detectBranch: the name git prints unless git failed or printed nothing
\* or 'HEAD', else a non-empty BRANCH_NAME, else main.
detectBranch(error, stdout, env) ==
    IF ~error /\ stdout # <<>> /\ stdout # <<"H", "E", "A", "D">> THEN stdout
    ELSE IF env # null /\ env[1] # <<>> THEN env[1]
    ELSE MAIN_BRANCH

\* getAllBranches: the branches git lists, none when git fails.
RepoBranches == [i \in 1..MaxBranches |-> BranchName(i)]

getAllBranches(error) == IF error THEN <<>> ELSE RepoBranches

\* publishAllBranches up to the loop.
publishAllStart(listError, gitError) ==
    /\ paPc = "idle"
    /\ paBranches' = getAllBranches(listError)
    /\ paResults' = <<>>
    /\ paCurrent' = detectBranch(gitError, abbrevRef(head), envBranch)
    /\ paOrigHead' = head
    /\ paIdx' = 1
    /\ paLog' = <<>>
    /\ paPc' = "loop"
    /\ UNCHANGED <<head, envBranch, paFinal,
                   jobVars, ringVars, sanVars, sseVars, watchVars, pubVars, reqVars, srvVars>>

\* One turn of the loop: git checkout of the branch, then publishCurrentBranch
\* (which detects the branch again), either of which may fail.
publishAllBranch_abort(checkoutOk, publishOk) ==
    /\ paPc = "loop"
    /\ paIdx <= Len(paBranches)
    /\ LET branch == paBranches[paIdx]
           h == IF checkoutOk THEN Branch(branch) ELSE head
       IN  /\ head' = h
           /\ paLog' = Append(paLog, [branch |-> branch, checkout |-> checkoutOk,
                                      publish |-> checkoutOk /\ publishOk])
           /\ paResults' =
                  IF checkoutOk /\ publishOk
                  THEN Append(paResults,
                              [branch |-> detectBranch(FALSE, abbrevRef(h), envBranch)])
                  ELSE paResults
           /\ paIdx' = IF checkoutOk THEN paIdx + 1 ELSE Len(paBranches) + 1
    /\ UNCHANGED <<envBranch, paPc, paBranches, paCurrent, paOrigHead, paFinal,
                   jobVars, ringVars, sanVars, sseVars, watchVars, pubVars, reqVars, srvVars>>

publishAllBranch(checkoutOk, publishOk) ==
    /\ paPc = "loop"
    /\ paIdx <= Len(paBranches)
    /\ LET branch == paBranches[paIdx]
           h == IF checkoutOk THEN Branch(branch) ELSE head
       IN  /\ head' = h
           /\ paLog' = Append(paLog, [branch |-> branch, checkout |-> checkoutOk,
                                      publish |-> checkoutOk /\ publishOk])
           /\ paResults' =
                  IF checkoutOk /\ publishOk
                  THEN Append(paResults,
                              [branch |-> detectBranch(FALSE, abbrevRef(h), envBranch)])
                  ELSE paResults
           /\ paIdx' = paIdx + 1
    /\ UNCHANGED <<envBranch, paPc, paBranches, paCurrent, paOrigHead, paFinal,
                   jobVars, ringVars, sanVars, sseVars, watchVars, pubVars, reqVars, srvVars>>

\* After the loop: git checkout currentBranch, which can only work when the
\* repository has a branch of that name, and the return of results.
publishAllReturn(checkoutOk) ==
    /\ paPc = "loop"
    /\ paIdx > Len(paBranches)
    /\ checkoutOk => \E i \in 1..Len(RepoBranches) : RepoBranches[i] = paCurrent
    /\ head' = IF checkoutOk THEN Branch(paCurrent) ELSE head
    /\ paFinal' = <<[arg |-> paCurrent, ok |-> checkoutOk]>>
    /\ paPc' = "returned"
    /\ UNCHANGED <<envBranch, paBranches, paIdx, paResults, paCurrent, paLog,
                   paOrigHead, jobVars, ringVars, sanVars, sseVars, watchVars, pubVars, reqVars, srvVars>>

\* HEAD and BRANCH_NAME the server can be started with.
HeadStates == {Branch(RepoBranches[i]) : i \in 1..Len(RepoBranches)} \cup {Detached}

EnvValues == {null, <<BranchName(2)>>, <<<<"c", "i">>>>}

InitPubAll ==
    /\ JobsIdle /\ RingIdle /\ SanIdle /\ SseIdle /\ WatchIdle /\ PubIdle
    /\ ReqIdle /\ SrvIdle
    /\ head \in HeadStates
    /\ envBranch \in EnvValues
    /\ paPc = "idle"
    /\ paBranches = <<>>
    /\ paIdx = 0
    /\ paResults = <<>>
    /\ paCurrent = <<>>
    /\ paLog = <<>>
    /\ paOrigHead = head
    /\ paFinal = null

NextPubAll ==
    \/ \E listError, gitError \in BOOLEAN : publishAllStart(listError, gitError)
    \/ \E checkoutOk, publishOk \in BOOLEAN : publishAllBranch(checkoutOk, publishOk)
    \/ \E checkoutOk \in BOOLEAN : publishAllReturn(checkoutOk)

SpecPubAll == InitPubAll /\ [][NextPubAll]_vars

----------------------------------------------------------------------------
(* Claims about publishAllBranches, checked under SpecPubAll *)

\* The turns of the loop in which checkout and publish both succeeded.
Published == SelectSeq(paLog, LAMBDA e : e.checkout /\ e.publish)

\* C16: publishAllBranches never fails as a whole: whichever checkouts or
\* publishes fail, it attempts every branch of the list, returns normally,
\* and its result has exactly one entry per branch that was checked out and
\* published successfully.
C16_AllBranchesAttempted ==
    /\ [](paPc = "loop" /\ paIdx > Len(paBranches) => ENABLED publishAllReturn(FALSE))
    /\ [](paPc = "returned" =>
            /\ [i \in 1..Len(paLog) |-> paLog[i].branch] = paBranches
            /\ paResults = [i \in 1..Len(Published) |-> [branch |-> Published[i].branch]])

\* publishAllBranches returned after a failed checkout and a failed publish
\* that were followed by a successful branch.
C16_Witness ==
    /\ paPc = "returned"
    /\ Len(paLog) = MaxBranches
    /\ ~paLog[1].checkout
    /\ paLog[2].checkout /\ ~paLog[2].publish
    /\ paLog[MaxBranches].publish
    /\ Len(paResults) = 1

\* C17: the last version-control step of publishAllBranches is a checkout of
\* the HEAD state the working directory had when it was called, and when
\* that checkout succeeds the working directory is back on that HEAD.
C17_ReturnsToOriginalHead ==
    paPc = "returned" =>
        /\ Branch(paFinal[1].arg) = paOrigHead
        /\ paFinal[1].ok => head = paOrigHead

----------------------------------------------------------------------------
(* Publishing the current branch (publish.js: publishCurrentBranch)         *)

\* A path is a sequence of segments, a segment a tuple of characters.
PREVIEW_PREFIX == <<".", "p", "r", "e", "v", "i", "e", "w">>
DotGit == <<".", "g", "i", "t">>
Dot    == <<".">>
DotDot == <<".", ".">>

\* DEFAULT_PREVIEW_ROOT, one directory below the file system root.
previewRoot == << <<"w", "w", "w">> >>

IsPrefix(p, q) == Len(p) <= Len(q) /\ SubSeq(q, 1, Len(p)) = p
IsProperPrefix(p, q) == Len(p) < Len(q) /\ SubSeq(q, 1, Len(p)) = p

\* The segments of a string, as path.join cuts it at every separator.
RECURSIVE splitPath(_, _, _)
splitPath(str, cur, acc) ==
    IF str = <<>> THEN Append(acc, cur)
    ELSE IF Head(str) = "/" THEN splitPath(Tail(str), <<>>, Append(acc, cur))
    ELSE splitPath(Tail(str), Append(cur, Head(str)), acc)

\* path.normalize on segments: empty and '.' segments vanish, '..' removes
\* the segment before it and stays at the file system root.
RECURSIVE normalize(_, _)
normalize(acc, segs) ==
    IF segs = <<>> THEN acc
    ELSE IF Head(segs) \in {<<>>, Dot} THEN normalize(acc, Tail(segs))
    ELSE IF Head(segs) = DotDot
         THEN normalize(IF acc = <<>> THEN acc ELSE SubSeq(acc, 1, Len(acc) - 1),
                        Tail(segs))
    ELSE normalize(Append(acc, Head(segs)), Tail(segs))

\* path.join(base, a, b) for an absolute, normalized base.
pathJoin(base, a, b) ==
    normalize(base, splitPath(a, <<>>, <<>>) \o splitPath(b, <<>>, <<>>))

\* isSubPath on resolved paths.
isSubPath(parent, target) ==
    LET rp == normalize(<<>>, parent)
        rc == normalize(<<>>, target)
    IN  rc = rp \/ IsProperPrefix(rp, rc)

\* The characters branchSlug keeps: [A-Za-z0-9._-].
SlugChars ==
    {"A", "B", "C", "D", "E", "F", "G", "H", "I", "J", "K", "L", "M", "N",
     "O", "P", "Q", "R", "S", "T", "U", "V", "W", "X", "Y", "Z",
     "a", "b", "c", "d", "e", "f", "g", "h", "i", "j", "k", "l", "m", "n",
     "o", "p", "q", "r", "s", "t", "u", "v", "w", "x", "y", "z",
     "0", "1", "2", "3", "4", "5", "6", "7", "8", "9", ".", "_", "-"}

branchSlug_keepSlash(name) ==
    [i \in 1..Len(name) |->
        IF name[i] \in SlugChars \cup {"/"} THEN name[i] ELSE "_"]

branchSlug(name) ==
    [i \in 1..Len(name) |-> IF name[i] \in SlugChars THEN name[i] ELSE "_"]

resolveTargetDir(root, branch) ==
    IF branch = MAIN_BRANCH THEN root
    ELSE pathJoin(root, PREVIEW_PREFIX, branchSlug(branch))

\* The working tree: index.html differs by branch and revision, the other
\* entries are the same on every branch. It has a .git directory, a .git
\* file in a subdirectory (as a submodule has), and a symbolic link.
Fixed == [of |-> <<>>, rev |-> 0]

Entry(path, kind, data) == [path |-> path, kind |-> kind, data |-> data]

WorkTree(h, v, rd) ==
    {Entry(<< <<"i", "n", "d", "e", "x">> >>, "file", [of |-> abbrevRef(h), rev |-> v]),
     Entry(<< <<"s", "u", "b">>, <<"a">> >>, "file", Fixed),
     Entry(<< <<"s", "u", "b">>, DotGit >>, "file", Fixed),
     Entry(<< DotGit, <<"H", "E", "A", "D">> >>, "file", Fixed),
     Entry(<< <<"l", "i", "n", "k">> >>, "symlink", Fixed)}
    \cup (IF rd THEN {Entry(<< <<"R", "E", "A", "D", "M", "E">> >>, "file", Fixed)}
          ELSE {})

\* rmDirContents: everything below dir goes, except what is below an entry
\* of dir named in skipNames.
rmDirContents(fs, dir, skipNames) ==
    {f \in fs : ~(IsProperPrefix(dir, f.path) /\ f.path[Len(dir) + 1] \notin skipNames)}

\* copyDir: the files it writes. Entries named .git are skipped at every
\* level, directories are descended into, symbolic links are skipped.
RECURSIVE copyDir_copyLinks(_, _, _)
copyDir_copyLinks(tree, src, dest) ==
    LET names == {e.path[Len(src) + 1] : e \in {x \in tree : IsProperPrefix(src, x.path)}}
        copied(name) ==
            LET s == Append(src, name)
                d == Append(dest, name)
            IN  IF name = DotGit THEN {}
                ELSE IF \E e \in tree : IsProperPrefix(s, e.path)
                     THEN copyDir_copyLinks(tree, s, d)
                ELSE LET ent == CHOOSE e \in tree : e.path = s
                     IN  {[path |-> d, data |-> ent.data]}
    IN  UNION {copied(name) : name \in names}

\* copyDir without the skipNames test.
RECURSIVE copyDir_keepGit(_, _, _)
copyDir_keepGit(tree, src, dest) ==
    LET names == {e.path[Len(src) + 1] : e \in {x \in tree : IsProperPrefix(src, x.path)}}
        copied(name) ==
            LET s == Append(src, name)
                d == Append(dest, name)
            IN  IF \E e \in tree : IsProperPrefix(s, e.path)
                THEN copyDir_keepGit(tree, s, d)
                ELSE LET ent == CHOOSE e \in tree : e.path = s
                     IN  IF ent.kind = "symlink" THEN {}
                         ELSE {[path |-> d, data |-> ent.data]}
    IN  UNION {copied(name) : name \in names}

RECURSIVE copyDir(_, _, _)
copyDir(tree, src, dest) ==
    LET names == {e.path[Len(src) + 1] : e \in {x \in tree : IsProperPrefix(src, x.path)}}
        copied(name) ==
            LET s == Append(src, name)
                d == Append(dest, name)
            IN  IF name = DotGit THEN {}
                ELSE IF \E e \in tree : IsProperPrefix(s, e.path)
                     THEN copyDir(tree, s, d)
                ELSE LET ent == CHOOSE e \in tree : e.path = s
                     IN  IF ent.kind = "symlink" THEN {}
                         ELSE {[path |-> d, data |-> ent.data]}
    IN  UNION {copied(name) : name \in names}

\* The file system after the files of writes were written.
Written(fs, writes) ==
    {f \in fs : \A w \in writes : w.path # f.path} \cup writes

\* git checkout by the user or the agent.
gitCheckout(h) ==
    /\ head # h
    /\ head' = h
    /\ pubLast' = PubOp("checkout", <<>>, <<>>, "-", FALSE)
    /\ UNCHANGED <<envBranch, version, readme, preview, pubRun,
                   jobVars, ringVars, sanVars, sseVars, watchVars, pubAllVars, reqVars, srvVars>>

\* The files of the working tree are edited.
editTree ==
    /\ version < MaxVersions
    /\ version' = version + 1
    /\ pubLast' = PubOp("edit", <<>>, <<>>, "-", FALSE)
    /\ UNCHANGED <<head, envBranch, readme, preview, pubRun,
                   jobVars, ringVars, sanVars, sseVars, watchVars, pubAllVars, reqVars, srvVars>>

\* publishCurrentBranch: ensureScopeReady adds the README, the branch is
\* detected, the target is resolved and tested, cleared and filled.
publishCurrentBranch(gitError) ==
    LET branch == detectBranch(gitError, abbrevRef(head), envBranch)
        targetDir == resolveTargetDir(previewRoot, branch)
        skipNames == IF branch = MAIN_BRANCH THEN {PREVIEW_PREFIX} ELSE {}
        again == /\ pubLast.op = "publish"
                 /\ pubLast.result = "ok"
                 /\ pubLast.branch = branch
    IN  /\ readme' = TRUE
        /\ IF ~isSubPath(previewRoot, targetDir)
           THEN /\ pubLast' = PubOp("publish", branch, targetDir, "threw", FALSE)
                /\ UNCHANGED preview
           ELSE /\ pubLast' = PubOp("publish", branch, targetDir, "ok", again)
                /\ preview' = Written(rmDirContents(preview, targetDir, skipNames),
                                      copyDir(WorkTree(head, version, TRUE), <<>>, targetDir))
        /\ UNCHANGED <<head, envBranch, version, pubRun,
                       jobVars, ringVars, sanVars, sseVars, watchVars, pubAllVars, reqVars, srvVars>>

\* Branches of the repository and values of BRANCH_NAME.
PubHeadStates ==
    {Branch(MAIN_BRANCH), Branch(<<"a", "/", "b">>), Branch(<<"a", "_", "b">>),
     Detached}

PubEnvValues == {null, <<DotDot>>, <<<<".", ".", "/", ".", ".">>>>, <<Dot>>}

InitPublish ==
    /\ JobsIdle /\ RingIdle /\ SanIdle /\ SseIdle /\ WatchIdle /\ PubAllIdle
    /\ ReqIdle /\ SrvIdle
    /\ head = Branch(MAIN_BRANCH)
    /\ envBranch \in PubEnvValues
    /\ version = 1
    /\ readme = FALSE
    /\ preview = {}
    /\ pubLast = PubOp("init", <<>>, <<>>, "-", FALSE)
    /\ pubRun = PubRunIdle

NextPublish ==
    \/ \E h \in PubHeadStates : gitCheckout(h)
    \/ editTree
    \/ \E gitError \in BOOLEAN : publishCurrentBranch(gitError)

SpecPublish == InitPublish /\ [][NextPublish]_vars

----------------------------------------------------------------------------
(* Claims about publishCurrentBranch, checked under SpecPublish *)

\* C12: for every branch name (from git, from BRANCH_NAME or the default)
\* the target directory of publishCurrentBranch is the preview root or a
\* descendant of it, and no publish clears or writes a file outside the
\* preview root.
C12_TargetInsideRoot ==
    /\ [](pubLast.op = "publish" => IsPrefix(previewRoot, pubLast.targetDir))
    /\ [](\A f \in preview : IsPrefix(previewRoot, f.path))
    /\ [][pubLast'.result = "threw" => preview' = preview]_vars

\* A publish whose branch name came from BRANCH_NAME and points upwards:
\* the target is the preview root itself.
C12_Witness ==
    /\ pubLast.op = "publish"
    /\ pubLast.branch = DotDot
    /\ envBranch = <<pubLast.branch>>
    /\ pubLast.targetDir = previewRoot
    /\ pubLast.result = "ok"
    /\ preview # {}

\* The files of fs below dir.
Below(fs, dir) == {f \in fs : IsProperPrefix(dir, f.path)}

\* The top-level files of the preview root.
TopLevel(fs) == {f \in fs : Len(f.path) = Len(previewRoot) + 1 /\ IsPrefix(previewRoot, f.path)}

\* C13: publishing main removes nothing below <root>/.preview; publishing a
\* branch other than main changes files only below
\* <root>/.preview/<slug(branch)>/ and leaves every top-level file of the
\* preview root as it was, whatever the branch is called.
C13_MainAndPreviewsApart ==
    [][pubLast'.op = "publish" =>
         IF pubLast'.branch = MAIN_BRANCH
         THEN Below(preview, Append(previewRoot, PREVIEW_PREFIX)) \subseteq preview'
         ELSE /\ TopLevel(preview') = TopLevel(preview)
              /\ \A f \in (preview \ preview') \cup (preview' \ preview) :
                     IsProperPrefix(pathJoin(previewRoot, PREVIEW_PREFIX,
                                             branchSlug(pubLast'.branch)), f.path)]_vars

\* The names of the branches of the repository.
BranchNames == {h.name : h \in {x \in PubHeadStates : x.kind = "branch"}}

\* The published files of a branch: those below its target directory, the
\* previews below <root>/.preview not counted for main.
PublishedFiles(fs, branch) ==
    {f \in Below(fs, resolveTargetDir(previewRoot, branch)) :
        branch = MAIN_BRANCH => ~IsPrefix(Append(previewRoot, PREVIEW_PREFIX), f.path)}

\* C14: for distinct branch names A and B, publishing A leaves every file of
\* the published directory of B as it was (checked for the names git
\* accepts as branch names).
C14_BranchesDisjoint ==
    [][pubLast'.op = "publish" /\ pubLast'.branch \in BranchNames =>
         \A B \in BranchNames \ {pubLast'.branch} :
             PublishedFiles(preview', B) = PublishedFiles(preview, B)]_vars

\* The files of fs below dir, with their paths relative to dir.
Relative(fs, dir) ==
    {[path |-> SubSeq(f.path, Len(dir) + 1, Len(f.path)), data |-> f.data] :
        f \in Below(fs, dir)}

\* The files of a working tree that are no symbolic links and have no
\* segment named .git in their path, its final spare segments not counted.
Kept(tree, spare) ==
    {[path |-> e.path, data |-> e.data] :
        e \in {x \in tree : /\ x.kind = "file"
                            /\ \A i \in 1..(Len(x.path) - spare) : x.path[i] # DotGit}}

----------------------------------------------------------------------------
(* Further claims about the job registry, checked under Spec *)

\* C21: stopJob returns ok only when the target Job is 'running'; it reports
\* 'not_found' for an unknown job id and 'not_running' for a Job in a
\* terminal status; whenever it does not return ok, no Job's status, finish
\* time stamp or exit code changes and the running slot is unchanged.
C21_StopOnlyRunning ==
    [][last'.op = "stopJob" =>
         LET id == last'.jobId[1]
         IN  /\ last'.result = "ok" =>
                    id \in DOMAIN jobs /\ jobs[id].status = "running"
             /\ id \notin DOMAIN jobs => last'.result = "not_found"
             /\ (id \in DOMAIN jobs /\ jobs[id].status \in Terminal) =>
                    last'.result = "not_running"
             /\ last'.result # "ok" =>
                    /\ runningJobId' = runningJobId
                    /\ DOMAIN jobs' = DOMAIN jobs
                    /\ \A j \in DOMAIN jobs :
                          /\ jobs'[j].status = jobs[j].status
                          /\ jobs'[j].finishedAt = jobs[j].finishedAt
                          /\ jobs'[j].exitCode = jobs[j].exitCode]_vars

\* C25: once a Job has a terminal status, its stdout and stderr buffers
\* never change again.
C25_LogsFrozenAfterEnd ==
    [][\A j \in DOMAIN jobs :
          jobs[j].status \in Terminal =>
              /\ jobs'[j].stdout = jobs[j].stdout
              /\ jobs'[j].stderr = jobs[j].stderr]_vars

\* stopJob was refused for a finished Job while another Job held the slot.
C21_Witness ==
    /\ last.op = "stopJob"
    /\ last.result = "not_running"
    /\ jobs[last.jobId[1]].status \in Terminal
    /\ runningJobId # null
    /\ runningJobId # last.jobId

----------------------------------------------------------------------------
(* The logs of one Job: the registry with a single Job, whose subprocess    *)
(* writes any chunks to both streams                                        *)

InitLogs == JobsIdle /\ RingIdle /\ SanIdle /\ ExtIdle

NextLogs ==
    \/ \E spawnOk \in BOOLEAN : jobs = <<>> /\ startJob(spawnOk)
    \/ \E j \in JobIds : stopJob(j)
    \/ \E j \in JobIds, code \in ExitCodes : onExit(j, code)
    \/ \E j \in JobIds : onError(j)
    \/ \E j \in JobIds, d \in Chunks : stdoutData(j, d) /\ UNCHANGED nOut
    \/ \E j \in JobIds, d \in Chunks : stderrData(j, d) /\ UNCHANGED nOut

SpecLogs == InitLogs /\ [][NextLogs]_vars

\* C22: for every Job, the log data retained for it, stdout and stderr
\* together, never exceeds LOG_MAX_BYTES.
C22_LogsWithinLimit ==
    \A j \in DOMAIN jobs : size(jobs[j].stdout) + size(jobs[j].stderr) <= LogMaxBytes

----------------------------------------------------------------------------
(* Request paths that start Jobs (server: checkAuth, POST /mcp with the     *)
(* tools goose_run and goose_session_start, POST /api/run)                  *)

\* config.authToken, and the Authorization headers a request can carry:
\* none, the token with or without the Bearer prefix, and a wrong token.
AuthToken == "secret"

Headers == {[bearer |-> b, rest |-> t] :
               b \in BOOLEAN, t \in {"", "secret", "guess"}}

\* checkAuth: the token is what follows 'Bearer ', or the whole header.
checkAuth(header) == header.rest # "" /\ header.rest = AuthToken

\* The path of the runtime recipe: below a home directory with or without a
\* character of the sanitizer's list in its name.
RecipePaths == {<<"h", "/", "r", ".", "y">>, <<"R", "&", "D", "/", "r", ".", "y">>}

\* The arguments goose_run and POST /api/run hand to sanitizeArgs.
RunArgs(recipePath) ==
    <<Str(<<"-", "-", "n", "o", "-", "s", "e", "s", "s", "i", "o", "n">>),
      Str(<<"-", "-", "w", "i", "t", "h", "-", "b", "u", "i", "l", "t", "i", "n">>),
      Str(<<"d", "e", "v", "e", "l", "o", "p", "e", "r">>),
      Str(<<"-", "-", "r", "e", "c", "i", "p", "e">>),
      Str(recipePath)>>

\* The arguments of goose_session_start after args.shift() took 'session'.
SessionArgs(name) ==
    <<Str(<<"-", "-", "w", "i", "t", "h", "-", "b", "u", "i", "l", "t", "i", "n">>),
      Str(<<"d", "e", "v", "e", "l", "o", "p", "e", "r">>)>>
    \o (IF name # <<>> THEN <<Str(<<"-", "-", "n", "a", "m", "e">>), Str(name)>>
        ELSE <<>>)

\* A handler that ends without calling startJob.
Reply(path, authed, sanitizer, before, resp) ==
    /\ reqLast' = ReqOp(path, authed, sanitizer, before, null, resp)
    /\ UNCHANGED jobVars

\* A handler that calls startJob while the slot is free.
Start(path, authed, before, spawnOk) ==
    /\ reqLast' = ReqOp(path, authed, "accepted", before, <<newId>>, "ok")
    /\ startJobCall(spawnOk)

\* POST /mcp, tool goose_run.
mcpGooseRun(header, text, recipePath, spawnOk) ==
    /\ UNCHANGED <<ringVars, sanVars, sseVars, watchVars, gitVars, pubAllVars, pubVars,
                 srvVars, runs>>
    /\ IF ~checkAuth(header) THEN Reply("/mcp", FALSE, "none", {}, "401")
       ELSE IF text = <<>> THEN Reply("/mcp", TRUE, "none", {}, "invalid")
       ELSE IF sanitizeArgs(RunArgs(recipePath)).state = "threw"
            THEN Reply("/mcp", TRUE, "rejected", {}, "error")
       ELSE IF getRunningJobId # null THEN Reply("/mcp", TRUE, "accepted", {}, "BUSY")
       ELSE Start("/mcp", TRUE, {}, spawnOk)

\* POST /mcp, tool goose_session_start.
mcpSessionStart(header, name, spawnOk) ==
    /\ UNCHANGED <<ringVars, sanVars, sseVars, watchVars, gitVars, pubAllVars, pubVars,
                 srvVars, runs>>
    /\ IF ~checkAuth(header) THEN Reply("/mcp", FALSE, "none", {}, "401")
       ELSE IF getRunningJobId # null THEN Reply("/mcp", TRUE, "none", {}, "BUSY")
       ELSE IF sanitizeArgs(SessionArgs(name)).state = "threw"
            THEN Reply("/mcp", TRUE, "rejected", {}, "error")
       ELSE Start("/mcp", TRUE, {}, spawnOk)

\* POST /api/run: the header is not looked at; for a branch other than main
\* git rev-parse --verify and git checkout run before the arguments are
\* built and sanitized.
apiRun(header, text, branch, gitOk, recipePath, spawnOk) ==
    LET authed == checkAuth(header)
        git == branch # <<>> /\ branch # MAIN_BRANCH
        before == IF git THEN {"git"} ELSE {}
    IN  /\ UNCHANGED <<ringVars, sanVars, sseVars, watchVars, envBranch,
                       pubAllVars, pubVars, srvVars, runs>>
        /\ IF text = <<>>
           THEN Reply("/api/run", authed, "none", {}, "400") /\ UNCHANGED head
           ELSE IF getRunningJobId # null
           THEN Reply("/api/run", authed, "none", {}, "409") /\ UNCHANGED head
           ELSE IF git /\ ~gitOk
           THEN Reply("/api/run", authed, "none", before, "400") /\ UNCHANGED head
           ELSE /\ head' = IF git THEN Branch(branch) ELSE head
                /\ IF sanitizeArgs(RunArgs(recipePath)).state = "threw"
                   THEN Reply("/api/run", authed, "rejected", before, "500")
                   ELSE Start("/api/run", authed, before, spawnOk)

\* Request bodies: instruction texts, session names and branch names.
Texts == {<<>>, <<"d", "o">>}

Names == {<<>>, <<"n">>, <<"n", ";">>}

ReqBranches == {<<>>, MAIN_BRANCH, BranchName(2), <<"-", "s">>}

InitApi == JobsIdle /\ RingIdle /\ SanIdle /\ ExtIdle

NextApi ==
    \/ \E header \in Headers, text \in Texts, recipePath \in RecipePaths,
          spawnOk \in BOOLEAN : mcpGooseRun(header, text, recipePath, spawnOk)
    \/ \E header \in Headers, name \in Names, spawnOk \in BOOLEAN :
          mcpSessionStart(header, name, spawnOk)
    \/ \E header \in Headers, text \in Texts, branch \in ReqBranches,
          gitOk \in BOOLEAN, recipePath \in RecipePaths, spawnOk \in BOOLEAN :
          apiRun(header, text, branch, gitOk, recipePath, spawnOk)
    \/ \E j \in JobIds, code \in ExitCodes : onExit(j, code)
    \/ \E j \in JobIds : onError(j)

SpecApi == InitApi /\ [][NextApi]_vars

----------------------------------------------------------------------------
(* Claims about the request paths, checked under SpecApi *)

\* C23: no Job is started for a request that did not present the configured
\* bearer token: every request path that reaches startJob has passed the
\* authorization check.
C23_NoJobWithoutToken ==
    [][DOMAIN jobs' # DOMAIN jobs => reqLast'.authed]_vars

\* C29: on every request path no subprocess, the external binary or a
\* version-control command, is spawned and no Job is registered before
\* sanitizeArgs has accepted the request's arguments; a request whose
\* arguments fail the sanitizer is rejected with nothing spawned.
C29_SanitizedBeforeSpawn ==
    /\ [](reqLast.before = {})
    /\ [][DOMAIN jobs' # DOMAIN jobs => reqLast'.sanitizer = "accepted"]_vars

----------------------------------------------------------------------------
(* A client that tails one ring buffer while output arrives                 *)

\* The positions in the stream of the bytes the buffer holds at indexes
\* from + 1 .. to.
Positions(from, to) ==
    {Len(stream) - Len(buffer) + i : i \in (from + 1)..to}

\* streamLogs with the nextOffset of the previous call (0 at first): the
\* bytes between the clamped offset and nextOffset are received.
tailPoll(max) ==
    /\ tail.polls < MaxPolls
    /\ LET r == read(buffer, tail.offset, max)
           received == Positions(Min(tail.offset, Len(buffer)), r.nextOffset)
       IN  tail' = [offset |-> r.nextOffset,
                    got    |-> tail.got \cup received,
                    twice  |-> tail.twice \/ (received \cap tail.got # {}),
                    isEnd  |-> r.isEnd,
                    polls  |-> tail.polls + 1]
    /\ UNCHANGED <<rbMax, buffer, stream, reader, jobVars, sanVars, extVars>>

InitTail == InitRing

NextTail ==
    \/ \E chunk \in Chunks : ringAppend(chunk)
    \/ \E max \in 1..MaxRead : tailPoll(max)

SpecTail == InitTail /\ [][NextTail]_vars

\* C24: a client that starts at offset 0 and always passes the nextOffset it
\* was given, while output is appended between its polls, receives no byte
\* twice, and a poll that reports the end of the data has left no byte of
\* the buffer unreceived, also after the output has exceeded the capacity.
C24_TailingLosesNothing ==
    /\ [](~tail.twice)
    /\ [][(tail'.polls # tail.polls /\ tail'.isEnd) =>
             Positions(0, Len(buffer)) \subseteq tail'.got]_vars

----------------------------------------------------------------------------
(***************************************************************************)
(* The app.listen callback of the server: the boot publish, the debounced  *)
(* onGitChange the watcher is given, and the tools that republish.  Time   *)
(* is counted in ticks; a timeout runs at its deadline, before any watcher *)
(* callback of the same instant (expired timers run first in a turn of the *)
(* event loop).  A publish is asynchronous: it suspends on the git calls   *)
(* of detectBranch, on rmDirContents and on copyDir.                       *)
(***************************************************************************)
MaxTime == 5
MaxPubs == 2

\* The 500 ms handed to debounce, in ticks.
DebounceTicks == 2

PubPhases == <<"detect", "clear", "copy">>

Publish(by) == [by |-> by, phase |-> 1, branch |-> null]

RemoveAt(s, i) == SubSeq(s, 1, i - 1) \o SubSeq(s, i + 1, Len(s))

Due == {d \in timers : d <= clock}

\* The returned closure of debounce, without the clearTimeout.
onGitChange_noClear ==
    /\ srvPc = "watching"
    /\ Due = {}
    /\ timers' = timers \cup {clock + DebounceTicks}
    /\ republishTimer' = <<clock + DebounceTicks>>
    /\ sigTimes' = sigTimes \cup {clock}
    /\ reloadLast' = NoReload
    /\ UNCHANGED <<srvPc, clock, pubCalls, pubs>>
    /\ UNCHANGED <<jobVars, ringVars, sanVars, sseVars, watchVars, gitVars,
                   pubAllVars, pubVars, reqVars>>

\* The closure debounce returns, called by the watcher:
\* if (republishTimer) clearTimeout(republishTimer);
\* republishTimer = setTimeout(fn, ms).
onGitChange ==
    /\ srvPc = "watching"
    /\ Due = {}
    /\ timers' = (IF republishTimer = null THEN timers
                  ELSE timers \ {republishTimer[1]}) \cup {clock + DebounceTicks}
    /\ republishTimer' = <<clock + DebounceTicks>>
    /\ sigTimes' = sigTimes \cup {clock}
    /\ reloadLast' = NoReload
    /\ UNCHANGED <<srvPc, clock, pubCalls, pubs>>
    /\ UNCHANGED <<jobVars, ringVars, sanVars, sseVars, watchVars, gitVars,
                   pubAllVars, pubVars, reqVars>>

\* The timeout runs fn: publishCurrentBranch is called and suspends.
timerFire ==
    /\ Len(pubs) < MaxPubs
    /\ \E d \in Due :
        /\ timers' = timers \ {d}
        /\ pubCalls' = Append(pubCalls, clock)
        /\ pubs' = Append(pubs, Publish("watcher"))
    /\ reloadLast' = NoReload
    /\ UNCHANGED <<srvPc, clock, republishTimer, sigTimes>>
    /\ UNCHANGED <<jobVars, ringVars, sanVars, sseVars, watchVars, gitVars,
                   pubAllVars, pubVars, reqVars>>

\* promote_branch_to_main, undo_last_commit_on_main and the other tools
\* that republish: after their synchronous git commands they call
\* publishCurrentBranch.  The server answers requests as soon as it listens.
toolPublish ==
    /\ Len(pubs) < MaxPubs
    /\ pubs' = Append(pubs, Publish("tool"))
    /\ reloadLast' = NoReload
    /\ UNCHANGED <<srvPc, clock, timers, republishTimer, sigTimes, pubCalls>>
    /\ UNCHANGED <<jobVars, ringVars, sanVars, sseVars, watchVars, gitVars,
                   pubAllVars, pubVars, reqVars>>

\* The value of branch in the boot event.
All == <<"a", "l", "l">>

\* The branches detectBranch returns to a publish of the server.
SrvBranches == {MAIN_BRANCH, BranchName(2)}

\* broadcastReload as the callers of publishCurrentBranch call it: the
\* debounced callback with the branch of the result, the boot code with
\* 'all' after publishAllBranches; the tools broadcast nothing.
ReloadAfter(p) ==
    IF p.by = "watcher" THEN Reload(p.branch, p.by, "ok", p.branch)
    ELSE IF p.by = "boot" THEN Reload(<<All>>, p.by, "ok", p.branch)
    ELSE Reload(null, p.by, "ok", p.branch)

\* publishResume with a catch block that broadcasts as well.
publishResume_reloadInCatch(i, b, ok) ==
    /\ i \in DOMAIN pubs
    /\ IF ~ok
       THEN /\ pubs' = RemoveAt(pubs, i)
            /\ srvPc' = IF pubs[i].by = "boot" THEN "watching" ELSE srvPc
            /\ reloadLast' = Reload(<<b>>, pubs[i].by, "threw", pubs[i].branch)
       ELSE IF pubs[i].phase < Len(PubPhases)
       THEN /\ pubs' = [pubs EXCEPT ![i].phase = @ + 1,
                                    ![i].branch = IF pubs[i].phase = 1 /\ pubs[i].by # "boot"
                                                  THEN <<b>> ELSE @]
            /\ reloadLast' = NoReload
            /\ UNCHANGED srvPc
       ELSE /\ pubs' = RemoveAt(pubs, i)
            /\ srvPc' = IF pubs[i].by = "boot" THEN "watching" ELSE srvPc
            /\ reloadLast' = ReloadAfter(pubs[i])
    /\ UNCHANGED <<clock, timers, republishTimer, sigTimes, pubCalls>>
    /\ UNCHANGED <<jobVars, ringVars, sanVars, sseVars, watchVars, gitVars,
                   pubAllVars, pubVars, reqVars>>

\* A publish in flight resumes: it throws (its caller catches and logs), or
\* goes on to its next phase (after the first the branch is detected), or
\* returns; the caller then broadcasts.  After the boot publish the
\* callback installs the watcher.
publishResume(i, b, ok) ==
    /\ i \in DOMAIN pubs
    /\ IF ~ok
       THEN /\ pubs' = RemoveAt(pubs, i)
            /\ srvPc' = IF pubs[i].by = "boot" THEN "watching" ELSE srvPc
            /\ reloadLast' = Reload(null, pubs[i].by, "threw", pubs[i].branch)
       ELSE IF pubs[i].phase < Len(PubPhases)
       THEN /\ pubs' = [pubs EXCEPT ![i].phase = @ + 1,
                                    ![i].branch = IF pubs[i].phase = 1 /\ pubs[i].by # "boot"
                                                  THEN <<b>> ELSE @]
            /\ reloadLast' = NoReload
            /\ UNCHANGED srvPc
       ELSE /\ pubs' = RemoveAt(pubs, i)
            /\ srvPc' = IF pubs[i].by = "boot" THEN "watching" ELSE srvPc
            /\ reloadLast' = ReloadAfter(pubs[i])
    /\ UNCHANGED <<clock, timers, republishTimer, sigTimes, pubCalls>>
    /\ UNCHANGED <<jobVars, ringVars, sanVars, sseVars, watchVars, gitVars,
                   pubAllVars, pubVars, reqVars>>

\* Time passes, unless a timeout is due.
tick ==
    /\ clock < MaxTime
    /\ Due = {}
    /\ clock' = clock + 1
    /\ reloadLast' = NoReload
    /\ UNCHANGED <<srvPc, timers, republishTimer, sigTimes, pubCalls, pubs>>
    /\ UNCHANGED <<jobVars, ringVars, sanVars, sseVars, watchVars, gitVars,
                   pubAllVars, pubVars, reqVars>>

\* The server listens and the boot publish has been called.
InitServer ==
    /\ JobsIdle /\ RingIdle /\ SanIdle
    /\ SseIdle /\ WatchIdle /\ GitIdle /\ PubAllIdle /\ PubIdle /\ ReqIdle
    /\ srvPc = "booting"
    /\ clock = 0
    /\ timers = {}
    /\ republishTimer = null
    /\ sigTimes = {}
    /\ pubCalls = <<>>
    /\ pubs = <<Publish("boot")>>
    /\ reloadLast = NoReload

NextServer ==
    \/ onGitChange
    \/ timerFire
    \/ toolPublish
    \/ \E i \in 1..MaxPubs, b \in SrvBranches, ok \in BOOLEAN : publishResume(i, b, ok)
    \/ tick

SpecServer == InitServer /\ [][NextServer]_vars

\* C26: no two publish operations on the working directory are in flight at
\* the same time, whoever started them (the boot publish, the debounced
\* watcher callback, a promote or undo tool).
C26_PublishesSerialized == Len(pubs) <= 1

\* The signals that ended a burst whose timeout has run: no other signal
\* came less than the delay after them, and the delay has passed.
BurstEnds ==
    {s \in sigTimes :
        /\ \A u \in sigTimes : ~(s < u /\ u < s + DebounceTicks)
        /\ s + DebounceTicks <= clock
        /\ (s + DebounceTicks) \notin timers}

\* C27: at most one timeout is pending, and the debounced callback has run
\* exactly once for every burst of signals, at the delay after the last
\* signal of the burst and at no other time.
C27_OnePublishPerBurst ==
    /\ Cardinality(timers) <= 1
    /\ \A i, j \in DOMAIN pubCalls : i < j => pubCalls[i] < pubCalls[j]
    /\ {pubCalls[i] : i \in DOMAIN pubCalls} = {s + DebounceTicks : s \in BurstEnds}

\* A burst of two signals one tick apart, then the one publish call.
C27_Witness ==
    \E s \in sigTimes :
        /\ s + 1 \in sigTimes
        /\ pubCalls = <<s + 1 + DebounceTicks>>

----------------------------------------------------------------------------
(***************************************************************************)
(* Further claims about the watcher.                                       *)
(***************************************************************************)

\* C28: a poll calls onChange only when the hash it resolved differs from
\* lastHeadHash, and while HEAD has resolved to one commit only the polls
\* have called onChange at most once, however they overlap and in whatever
\* order they complete.
C28_PollFiresOnNewHash ==
    /\ [](Cardinality(headLog) = 1 => pollCount.fired <= 1)
    /\ [][(wLast'.op = "poll" /\ wLast'.fired)
             => lastHeadHash' # lastHeadHash /\ lastHeadHash' # null]_vars

\* HEAD has not moved, two polls resolved its commit and one is still in
\* flight; onChange was called once.
C28_Witness ==
    /\ Cardinality(headLog) = 1
    /\ pollCount = [resolved |-> 2, fired |-> 1]
    /\ inflight > 0
    /\ lastHeadHash = <<headCommit>>

----------------------------------------------------------------------------
(***************************************************************************)
(* Further claims about publishCurrentBranch, checked under SpecPublish.   *)
(***************************************************************************)

----------------------------------------------------------------------------
(***************************************************************************)
(* Claims about the running slot and the end of jobs.                      *)
(***************************************************************************)

\* C32: the running slot and the Job statuses agree in every reachable
\* state: getRunningJobId returns id X if and only if Job X exists and has
\* status 'running', and null if and only if no Job has status 'running'.
C32_SlotAgreesWithStatus ==
    /\ \A x \in JobIds : getRunningJobId = <<x>> <=> x \in Running
    /\ getRunningJobId = null <=> Running = {}

\* The job registry with the events of a subprocess delivered: an 'error'
\* event that is due is emitted.  A subprocess that runs need not end.
SpecJobsFair == Spec /\ \A j \in JobIds : WF_vars(onError(j))

\* C31: once the subprocess of a started Job has exited or has failed to
\* spawn, the Job eventually leaves status 'running' and no longer holds the
\* running slot, so that a startJob that was refused with BUSY can succeed.
C31_JobEventuallyEnds ==
    \A j \in JobIds :
        (j \in DOMAIN jobs /\ child[j] \in {"exited", "spawnfail", "errored"})
            ~> (j \notin Running /\ getRunningJobId # <<j>>)

----------------------------------------------------------------------------
(***************************************************************************)
(* publishCurrentBranch step by step: it suspends after detectBranch, and  *)
(* again in rmDirContents and in copyDir, and a checkout or an edit of the *)
(* working directory may come in between.                                  *)
(***************************************************************************)

IndexPath == << <<"i", "n", "d", "e", "x">> >>

\* ensureScopeReady and detectBranch have returned; the target is resolved.
publishDetect(gitError) ==
    LET branch == detectBranch(gitError, abbrevRef(head), envBranch)
        targetDir == resolveTargetDir(previewRoot, branch)
    IN  /\ pubRun.pc = "idle"
        /\ readme' = TRUE
        /\ pubRun' = [pc |-> "detected", branch |-> branch,
                      targetDir |-> targetDir,
                      fromGit |-> ~gitError /\ head.kind = "branch"]
        /\ pubLast' = PubOp("detect", branch, targetDir, "-", FALSE)
        /\ UNCHANGED <<head, envBranch, version, preview,
                       jobVars, ringVars, sanVars, sseVars, watchVars, pubAllVars, reqVars, srvVars>>

\* The containment test, then rmDirContents.
publishClear ==
    LET skipNames == IF pubRun.branch = MAIN_BRANCH THEN {PREVIEW_PREFIX} ELSE {}
    IN  /\ pubRun.pc = "detected"
        /\ IF ~isSubPath(previewRoot, pubRun.targetDir)
           THEN /\ pubLast' = PubOp("publish", pubRun.branch, pubRun.targetDir, "threw", FALSE)
                /\ pubRun' = [pubRun EXCEPT !.pc = "idle"]
                /\ UNCHANGED preview
           ELSE /\ pubLast' = PubOp("clear", pubRun.branch, pubRun.targetDir, "-", FALSE)
                /\ pubRun' = [pubRun EXCEPT !.pc = "cleared"]
                /\ preview' = rmDirContents(preview, pubRun.targetDir, skipNames)
        /\ UNCHANGED <<head, envBranch, version, readme,
                       jobVars, ringVars, sanVars, sseVars, watchVars, pubAllVars, reqVars, srvVars>>

\* copyDir copies the working directory as it is now; the call returns
\* {branch, targetDir, url}.
publishCopy ==
    /\ pubRun.pc = "cleared"
    /\ preview' = Written(preview, copyDir(WorkTree(head, version, readme), <<>>,
                                           pubRun.targetDir))
    /\ pubLast' = PubOp("publish", pubRun.branch, pubRun.targetDir, "ok", FALSE)
    /\ pubRun' = [pubRun EXCEPT !.pc = "idle"]
    /\ UNCHANGED <<head, envBranch, version, readme,
                   jobVars, ringVars, sanVars, sseVars, watchVars, pubAllVars, reqVars, srvVars>>

InitPubSteps == InitPublish

NextPubSteps ==
    \/ \E h \in PubHeadStates : gitCheckout(h)
    \/ editTree
    \/ \E gitError \in BOOLEAN : publishDetect(gitError)
    \/ publishClear
    \/ publishCopy

SpecPubSteps == InitPubSteps /\ [][NextPubSteps]_vars

\* C33: when publishCurrentBranch returns {branch: b, targetDir: d} and b is
\* the branch git reported at the start of the call, the files of d are
\* those of branch b, whatever checkouts came between the detection and the
\* copy.
C33_PublishedIsDetected ==
    (/\ pubLast.op = "publish"
     /\ pubLast.result = "ok"
     /\ pubRun.fromGit)
        => \A f \in Relative(preview, pubLast.targetDir) :
               f.path = IndexPath => f.data.of = pubLast.branch

----------------------------------------------------------------------------
(***************************************************************************)
(* POST /api/run step by step.  The handler is async: after the test of    *)
(* the running slot it suspends in `await import(...)`, after the checkout *)
(* in a 100 ms timeout and before startJob in a 50 ms timeout, and other   *)
(* requests and events are handled meanwhile.                              *)
(***************************************************************************)

\* The branch a request asks for: req.body.branch || 'main'.
Wanted(r) == IF runs[r].branch = <<>> THEN MAIN_BRANCH ELSE runs[r].branch

InFlight == {r \in ReqIds : runs[r].pc \notin {"none", "done"}}

RunReply(r, run, resp) ==
    /\ runs' = [runs EXCEPT ![r] = [run EXCEPT !.pc = "done"]]
    /\ reqLast' = ReqOp("/api/run", FALSE, "none", {}, null, resp)

\* The path of the runtime recipe, below a home directory with a plain name.
RunRecipePath == <<"h", "/", "r", ".", "y">>

\* The recipe is written and its arguments go through sanitizeArgs.
RunRecipe(r, run) ==
    IF sanitizeArgs(RunArgs(RunRecipePath)).state = "threw"
    THEN RunReply(r, run, "500")
    ELSE /\ runs' = [runs EXCEPT ![r] = [run EXCEPT !.pc = "ready"]]
         /\ reqLast' = ReqOp("/api/run", FALSE, "accepted", {}, null, "-")

\* The request arrives: the text and the running slot are tested; with a
\* branch other than main the handler suspends for the import, otherwise
\* it goes on to the recipe and suspends before startJob.
apiRunBegin(r, text, branch) ==
    LET run == [RunIdle EXCEPT !.branch = branch, !.overlapped = InFlight # {}]
    IN  /\ runs[r].pc = "none"
        /\ \A q \in ReqIds : q < r => runs[q].pc # "none"
        /\ IF text = <<>> THEN RunReply(r, run, "400")
           ELSE IF getRunningJobId # null THEN RunReply(r, run, "409")
           ELSE IF branch # <<>> /\ branch # MAIN_BRANCH
           THEN /\ runs' = [q \in ReqIds |->
                              IF q = r THEN [run EXCEPT !.pc = "import"]
                              ELSE IF q \in InFlight
                                   THEN [runs[q] EXCEPT !.overlapped = TRUE]
                                   ELSE runs[q]]
                /\ reqLast' = ReqOp("/api/run", FALSE, "none", {}, null, "-")
           ELSE IF sanitizeArgs(RunArgs(RunRecipePath)).state = "threw"
           THEN RunReply(r, run, "500")
           ELSE /\ runs' = [q \in ReqIds |->
                              IF q = r THEN [run EXCEPT !.pc = "ready"]
                              ELSE IF q \in InFlight
                                   THEN [runs[q] EXCEPT !.overlapped = TRUE]
                                   ELSE runs[q]]
                /\ reqLast' = ReqOp("/api/run", FALSE, "accepted", {}, null, "-")
        /\ UNCHANGED <<jobVars, ringVars, sanVars, sseVars, watchVars, gitVars,
                       pubAllVars, pubVars, srvVars>>

\* git rev-parse --verify and git checkout, both synchronous; they can
\* succeed for a branch of the repository only.
apiRunCheckout(r, gitOk) ==
    /\ runs[r].pc = "import"
    /\ gitOk => \E i \in 1..MaxBranches : runs[r].branch = BranchName(i)
    /\ IF gitOk
       THEN /\ head' = Branch(runs[r].branch)
            /\ runs' = [runs EXCEPT ![r].pc = "settle", ![r].checkedOut = TRUE]
            /\ reqLast' = ReqOp("/api/run", FALSE, "none", {"git"}, null, "-")
       ELSE /\ UNCHANGED head
            /\ runs' = [runs EXCEPT ![r].pc = "done"]
            /\ reqLast' = ReqOp("/api/run", FALSE, "none", {"git"}, null, "400")
    /\ UNCHANGED <<envBranch, jobVars, ringVars, sanVars, sseVars, watchVars,
                   pubAllVars, pubVars, srvVars>>

\* After the 100 ms: the recipe, sanitizeArgs, and the next suspension.
apiRunRecipe(r) ==
    /\ runs[r].pc = "settle"
    /\ RunRecipe(r, runs[r])
    /\ UNCHANGED <<jobVars, ringVars, sanVars, sseVars, watchVars, gitVars,
                   pubAllVars, pubVars, srvVars>>

\* After the 50 ms: startJob, which throws BUSY when the slot was taken in
\* the meantime (the handler answers 500).
apiRunStart(r, spawnOk) ==
    /\ runs[r].pc = "ready"
    /\ startJobCall(spawnOk)
    /\ IF getRunningJobId # null
       THEN /\ runs' = [runs EXCEPT ![r].pc = "done"]
            /\ reqLast' = ReqOp("/api/run", FALSE, "accepted", {}, null, "500")
       ELSE /\ runs' = [runs EXCEPT ![r].pc = "done", ![r].job = <<newId>>,
                                    ![r].spawnHead = <<head>>]
            /\ reqLast' = ReqOp("/api/run", FALSE, "accepted", {}, <<newId>>, "ok")
    /\ UNCHANGED <<ringVars, sanVars, sseVars, watchVars, gitVars,
                   pubAllVars, pubVars, srvVars>>

\* promote_branch_to_main up to its first suspension: git rev-parse
\* --verify, git checkout main, git reset --hard, all synchronous.  The
\* running slot is not looked at.
promoteBranchToMain(gitOk) ==
    /\ head' = IF gitOk THEN Branch(MAIN_BRANCH) ELSE head
    /\ reqLast' = ReqOp("/mcp", TRUE, "none", {"git"}, null,
                        IF gitOk THEN "ok" ELSE "error")
    /\ UNCHANGED <<runs, envBranch, jobVars, ringVars, sanVars, sseVars, watchVars,
                   pubAllVars, pubVars, srvVars>>

InitRun == JobsIdle /\ RingIdle /\ SanIdle /\ ExtIdle

NextRun ==
    \/ \E r \in ReqIds, text \in Texts, branch \in ReqBranches :
          apiRunBegin(r, text, branch)
    \/ \E r \in ReqIds, gitOk \in BOOLEAN : apiRunCheckout(r, gitOk)
    \/ \E r \in ReqIds : apiRunRecipe(r)
    \/ \E r \in ReqIds, spawnOk \in BOOLEAN : apiRunStart(r, spawnOk)
    \/ \E gitOk \in BOOLEAN : promoteBranchToMain(gitOk)
    \/ \E j \in JobIds, code \in ExitCodes : onExit(j, code)
    \/ \E j \in JobIds : onError(j)

SpecRun == InitRun /\ [][NextRun]_vars

\* C34: while a Job has status 'running', no server operation changes the
\* branch checked out in the working directory.
C34_NoCheckoutWhileRunning == [][Running # {} => head' = head]_vars

\* C35: of /api/run requests handled at the same time at most one starts a
\* Job, a request that starts no Job has performed no checkout, and a Job
\* is spawned with the branch of its own request checked out.
C35_RunGetsItsBranch ==
    /\ \A r, q \in ReqIds :
          (r # q /\ runs[r].overlapped /\ runs[q].overlapped)
              => (runs[r].job = null \/ runs[q].job = null)
    /\ \A r \in ReqIds :
          runs[r].pc = "done" =>
              /\ runs[r].job = null => ~runs[r].checkedOut
              /\ runs[r].job # null => runs[r].spawnHead = <<Branch(Wanted(r))>>

----------------------------------------------------------------------------
(***************************************************************************)
(* Further claims about the server's publishes, checked under SpecServer.  *)
(***************************************************************************)

\* C37 as stated: a reload event for branch b is broadcast only in the step
\* in which a publishCurrentBranch call for b returned; a publish that
\* failed or still runs produces no reload event.
C37_Original ==
    reloadLast.ev # null =>
        /\ reloadLast.result = "ok"
        /\ reloadLast.branch = reloadLast.ev

\* C37: a reload event is broadcast only by the debounced watcher callback,
\* with branch b in the step in which its publishCurrentBranch call
\* returned b, and by the boot code, with branch 'all' when
\* publishAllBranches returned; a publish that failed or still runs
\* produces no reload event.
C37_ReloadAfterPublish ==
    reloadLast.ev # null =>
        /\ reloadLast.result = "ok"
        /\ \/ reloadLast.by = "watcher" /\ reloadLast.branch = reloadLast.ev
           \/ reloadLast.by = "boot" /\ reloadLast.ev = <<All>>

\* A publish started by the watcher returned while another publish was in
\* flight, and its event was broadcast.
C37_Witness ==
    /\ reloadLast.by = "watcher"
    /\ reloadLast.ev = <<BranchName(2)>>
    /\ pubs # <<>>

====
